---- MODULE Spec2Model ----
(***************************************************************************)
(* Model of the document-fmt tool of terraform-provider-azurerm:           *)
(*   - the property tree (data.Properties / data.Property and the parser   *)
(*     package's ParsedProperties / ParsedProperty), kept as a heap of     *)
(*     objects so that sharing, overwriting and cycles are visible;        *)
(*   - the section builder (ArgumentsSection.SetContent / ParseFields);    *)
(*   - the linking pass (Properties.BuildBlockStructure);                  *)
(*   - the cross-reference validator (rule S006).                          *)
(* A Go pointer is an index into one of the two heap sequences, 0 is nil.  *)
(***************************************************************************)
EXTENDS Integers, Sequences, FiniteSets, TLC

VARIABLES
    heap,   \* [props: Seq of Properties objects, prop: Seq of Property objects]
    mode,   \* which part of the tool the behaviour exercises
    hist,   \* bookkeeping of the calls made so far (not program state)
    sec,    \* the section object: [content, parsedFields]
    node,   \* the TerraformNodeData fields the rule reads
    out     \* the value returned by the last call

vars == <<heap, mode, hist, sec, node, out>>

----------------------------------------------------------------------------
(* Bounds *)

\* number of insertion calls in one behaviour of SpecLevel
MaxIns == 4

\* lines of a section's content in SpecSection
MaxLines == 4

\* lines of a section's content, and SetContent calls, in SpecCache
MaxCacheLines == 2
MaxSets == 3

----------------------------------------------------------------------------
(* Generic helpers *)

EmptyMap == [x \in {} |-> 0]

Range(s) == {s[i] : i \in 1..Len(s)}

RECURSIVE SeqFilter(_, _)
\* the subsequence of s whose elements are in S
SeqFilter(s, S) ==
    IF s = <<>> THEN <<>>
    ELSE IF Head(s) \in S THEN <<Head(s)>> \o SeqFilter(Tail(s), S)
    ELSE SeqFilter(Tail(s), S)

\* number of positions of s holding x
CountOf(s, x) == Cardinality({i \in 1..Len(s) : s[i] = x})

\* the map m with key k set to v (Go: m[k] = v)
MapPut(m, k, v) == [x \in (DOMAIN m) \cup {k} |-> IF x = k THEN v ELSE m[x]]

----------------------------------------------------------------------------
(* The heap of tree objects *)

\* Properties{Names: make([]string, 0), Objects: make(map[string]*Property)}
NewProperties == [Names |-> <<>>, Objects |-> EmptyMap]

\* the zero value of Property / ParsedProperty (only the fields the model reads)
ZeroProperty ==
    [Name |-> "", Required |-> FALSE, Optional |-> FALSE, Computed |-> FALSE,
     Deprecated |-> FALSE, Block |-> FALSE, BlockTypeName |-> "", Nested |-> 0,
     Count |-> 0, ParseErrors |-> <<>>, Path |-> <<>>, Line |-> 0, Content |-> <<>>,
     Position |-> "PosDefault", ForceNew |-> FALSE, PossibleValues |-> <<>>,
     GuessEnums |-> <<>>]

EmptyHeap == [props |-> <<>>, prop |-> <<>>]

\* allocation: the new object gets the next index
AllocProps(h) == [h EXCEPT !.props = Append(@, NewProperties)]
AllocProp(h, rec) == [h EXCEPT !.prop = Append(@, rec)]
LastProps(h) == Len(h.props)
LastProp(h) == Len(h.prop)

DuplicateError == "duplicate field in same section"

\* data.Properties.AddProperty: ps is the receiver, p the argument (0 = nil)
Properties_AddProperty(h, ps, p) ==
    IF ps = 0 THEN h
    ELSE IF p = 0 \/ h.prop[p].Name = "" THEN h
    ELSE LET name == h.prop[p].Name IN
         IF name \in DOMAIN h.props[ps].Objects
         THEN LET existing == h.props[ps].Objects[name] IN
              [h EXCEPT !.prop[existing].Count = @ + 1,
                        !.prop[existing].ParseErrors = Append(@, DuplicateError)]
         ELSE [h EXCEPT !.props[ps].Names = Append(@, name),
                        !.props[ps].Objects = MapPut(@, name, p)]

\* an AddProperty that puts the new name at the front of the name list
AddPropertyAtFront(h, ps, p) ==
    IF ps = 0 THEN h
    ELSE IF p = 0 \/ h.prop[p].Name = "" THEN h
    ELSE [h EXCEPT !.props[ps].Names = <<h.prop[p].Name>> \o @,
                   !.props[ps].Objects = MapPut(@, h.prop[p].Name, p)]

\* parser.ParsedProperties.AddProperty
ParsedProperties_AddProperty(h, ps, p) ==
    IF ps = 0 THEN h
    ELSE IF p = 0 \/ h.prop[p].Name = "" THEN h
    ELSE LET name == h.prop[p].Name IN
         [h EXCEPT !.props[ps].Names = Append(@, name),
                   !.props[ps].Objects = MapPut(@, name, p)]

\* parser.ParsedProperties.AddField: f is the ParsedField value (a record);
\* a new ParsedProperty holding a copy of it is allocated and added
ParsedProperties_AddField(h, ps, f) ==
    LET h1 == IF f.Block THEN AllocProps(h) ELSE h
        p  == [f EXCEPT !.Nested = IF f.Block THEN LastProps(h1) ELSE 0]
        h2 == AllocProp(h1, p)
    IN ParsedProperties_AddProperty(h2, ps, LastProp(h2))

\* data.Property.AddSubProperty: p is the receiver, sub the argument
Property_AddSubProperty(h, p, sub) ==
    LET h1 == IF h.prop[p].Nested = 0
              THEN [AllocProps(h) EXCEPT !.prop[p].Nested = Len(h.props) + 1]
              ELSE h
        ps == h1.prop[p].Nested
        name == h1.prop[sub].Name
    IN [h1 EXCEPT !.props[ps].Names = Append(@, name),
                  !.props[ps].Objects = MapPut(@, name, sub)]

----------------------------------------------------------------------------
(* Documentation lines.  A line is the sequence of its blank-separated     *)
(* pieces; a piece is a word (k = "w", punctuation attached as written) or *)
(* a backtick-quoted token (k = "c", s the text between the backticks).    *)
(* The regular expressions and substring searches are evaluated on this    *)
(* representation; the classes of pieces they distinguish are listed here. *)

W(s) == [k |-> "w", s |-> s]
C(s) == [k |-> "c", s |-> s]

\* words beginning with a, an, A, An or The: ^(an?|An?|The)
ArticleStart == {"A", "An", "The", "a", "an", "as", "and", "available", "are"}
\* pieces containing the substring "block"
HasBlock == {"block", "blocks", "block.", "block_device"}
\* words ending in a quantifier of blockPropRegs: One, Each, more, The, as, of, A, An
QuantifierEnd == {"One", "one", "Each", "each", "more", "The", "the", "as", "of",
                  "A", "a", "An", "an", "has"}
\* words beginning with block or object
BlockOrObjectStart == {"block", "blocks", "block.", "object"}
\* pieces containing below or above
HasBelowAbove == {"below", "below.", "above", "above."}
\* pieces containing a period
HasPeriod == {"below.", "above.", "block.", "text.", "7.2", "deprecated.", ".", "7.1", "8.0"}
\* pieces holding something else than [a-zA-Z0-9_]
NotIdentifier == {"7.2", "a-b"}
\* pieces whose lower-cased text contains "deprecated"
HasDeprecated == {"deprecated", "Deprecated", "deprecated.", "DEPRECATED", "deprecated_field"}

\* strings.ToLower on the words the phrase search reads
ToLower(s) == CASE s = "Not" -> "not"
                [] s = "NOT" -> "not"
                [] s = "Available" -> "available"
                [] s = "For" -> "for"
                [] s = "Possible" -> "possible"
                [] s = "Allowed" -> "allowed"
                [] s = "Must" -> "must"
                [] OTHER -> s

Codes(line) == SeqFilter(line, {t \in Range(line) : t.k = "c"})

\* positions of the backtick-quoted pieces of a line, in order
CodePositions(line) == {i \in 1..Len(line) : line[i].k = "c"}

Min(S) == CHOOSE x \in S : \A y \in S : x <= y

\* FirstCodeValue: codeReg's first match, "" when there is none
FirstCodeValue(line) ==
    IF CodePositions(line) = {} THEN "" ELSE line[Min(CodePositions(line))].s

\* the line from piece i on (line[idx:])
From(line, i) == SubSeq(line, i, Len(line))

\* blockHeadReg: ^(an?|An?|The)[^`]+(`[a-zA-Z0-9_]+`[, and]*)+.*blocks?.*$
IsBlockHead(line) ==
    /\ Len(line) >= 2
    /\ line[1].k = "w"
    /\ line[1].s \in ArticleStart
    /\ CodePositions(line) # {}
    /\ LET c == Min(CodePositions(line)) IN
        /\ line[c].s \notin NotIdentifier
        /\ \E j \in (c + 1)..Len(line) : line[j].s \in HasBlock

\* ExtractBlockNames: the backtick-quoted pieces before the first "block"
ExtractBlockNames(line) ==
    IF ~IsBlockHead(line) THEN <<>>
    ELSE LET idx == Min({j \in 1..Len(line) : line[j].s \in HasBlock})
             before == SubSeq(line, 1, idx - 1)
         IN [i \in 1..Len(Codes(before)) |-> Codes(before)[i].s]

\* the " of " / " within " loop of ProcessBlockDefinition: " of " is tried
\* first and ends the loop when it occurs after the start of the line
BlockOf(line) ==
    LET at(sep) == {i \in 2..(Len(line) - 1) : line[i] = W(sep)}
    IN IF at("of") # {} THEN FirstCodeValue(From(line, Min(at("of"))))
       ELSE IF at("within") # {} THEN FirstCodeValue(From(line, Min(at("within"))))
       ELSE ""

\* a ProcessBlockDefinition that finds no relationship target
ProcessBlockDefinitionNoTarget(line) ==
    [blockNames |-> ExtractBlockNames(line), blockOf |-> ""]

\* ProcessBlockDefinition
ProcessBlockDefinition(line) ==
    [blockNames |-> ExtractBlockNames(line), blockOf |-> BlockOf(line)]

\* the text a lazy `(.*?)` captures when it runs over more than one piece
SpannedName == "<several pieces>"

\* fieldReg: ^[*-] *`(.*?)` +\- +(\(Required\)|\(Optional\))? ?(.*)
\* the position of the piece closing the name, 0 when the line does not match
FieldRegEnd(line) ==
    IF /\ Len(line) >= 3
       /\ line[1] \in {W("*"), W("-")}
       /\ line[2].k = "c"
    THEN LET ends == {j \in 2..(Len(line) - 1) : line[j].k = "c" /\ line[j + 1] = W("-")
                                                  /\ j + 1 < Len(line)}
         IN IF ends = {} THEN 0 ELSE Min(ends)
    ELSE 0

\* res[1] of fieldReg
FieldRegName(line) ==
    IF FieldRegEnd(line) = 2 THEN line[2].s ELSE SpannedName

\* guessBlockProperty: blockPropRegs or the phrase "A block to"
guessBlockProperty(line) ==
    \/ \E i \in 1..(Len(line) - 2) :
        /\ line[i].k = "w" /\ line[i].s \in QuantifierEnd
        /\ line[i + 1].k = "c"
        /\ line[i + 2].k = "w" /\ line[i + 2].s \in BlockOrObjectStart
        /\ line[i + 2].s \notin HasPeriod
        /\ \E j \in (i + 3)..Len(line) :
            /\ line[j].s \in HasBelowAbove
            /\ \A m \in (i + 3)..(j - 1) : line[m].s \notin HasPeriod
    \/ \E i \in 1..(Len(line) - 2) :
        line[i] = W("A") /\ line[i + 1] = W("block") /\ line[i + 2] = W("to")

\* extractBlockTypeName: the first match of blockTypeReg in the whole line
extractBlockTypeName(line, fieldName) ==
    LET ids == {i \in CodePositions(line) : line[i].s \notin NotIdentifier}
    IN IF ids = {} THEN fieldName ELSE line[Min(ids)].s

HasPiece(line, S) == \E i \in 1..Len(line) : line[i].s \in S

\* pieces written without a blank before them
Glued == {",", ".", ":"}

\* the number of blanks before piece i
SepBefore(line, i) == IF i = 1 \/ (line[i].k = "w" /\ line[i].s \in Glued) THEN 0 ELSE 1

\* a word of sixteen letters U+023A (two bytes each, the lower case U+2C65
\* has three) and a word of two signs U+212A (three bytes each, the lower
\* case k has one)
WideLower == "<U+023A x16>"
NarrowLower == "<U+212A x2>"

\* len(s) in bytes, for the words of the lines
Bytes(s) ==
    CASE s \in {"*", "-", "a", "b", "c", "X", ",", ".", ":"} -> 1
      [] s \in {"An", "to", "be", "is", "as", "of", "or", "->"} -> 2
      [] s \in {"are", "and", "new", "set", "7.1", "7.2", "8.0", "sku", "---", "one"} -> 3
      [] s \in {"text", "this", "that", "when", "must", "name"} -> 4
      [] s \in {"block", "below", "text."} -> 5
      [] s \in {"forces", "values", "below.", NarrowLower} -> 6
      [] s \in {"created", "defined", "Allowed"} -> 7
      [] s \in {"Changing", "resource", "Defaults", "Possible", "endpoint"} -> 8
      [] s \in {"(Optional)", "(Required)"} -> 10
      [] s \in {"replacement"} -> 11
      [] s \in {WideLower} -> 32
      [] OTHER -> 4

\* len(strings.ToLower(s)) - len(s)
LowerGrowth(s) == CASE s = WideLower -> 16 [] s = NarrowLower -> -4 [] OTHER -> 0

PieceBytes(piece) == IF piece.k = "c" THEN Bytes(piece.s) + 2 ELSE Bytes(piece.s)

RECURSIVE OffsetOf(_, _, _)
\* the byte offset at which piece i starts, in the line (lower = FALSE) or in
\* strings.ToLower(line) (lower = TRUE); i = Len(line) + 1 gives the length
OffsetOf(line, i, lower) ==
    IF i = 1 THEN 0
    ELSE OffsetOf(line, i - 1, lower) + PieceBytes(line[i - 1])
         + (IF lower THEN LowerGrowth(line[i - 1].s) ELSE 0)
         + (IF i <= Len(line) THEN SepBefore(line, i) ELSE 0)

ByteLen(line) == OffsetOf(line, Len(line) + 1, FALSE)

\* the separators of possibleValueSep, in the order it tries them
EnumSeparators ==
    <<<<"possible", "value">>, <<"must", "be", "one", "of">>, <<"be", "one", "of">>,
      <<"allowed", "value">>, <<"valid", "value">>, <<"supported", "value">>,
      <<"valid", "option">>, <<"accepted", "value">>>>

\* the words a separator's last word is a prefix of
WordsStarting(stem) == CASE stem = "value" -> {"value", "values"}
                         [] stem = "option" -> {"option", "options"}
                         [] OTHER -> {stem}

\* the separator sep occurs in the lower-cased line starting at piece i
SeparatorAt(line, i, sep) ==
    /\ i >= 1 /\ i + Len(sep) - 1 <= Len(line)
    /\ \A k \in 1..Len(sep) :
          /\ line[i + k - 1].k = "w"
          /\ k > 1 => SepBefore(line, i + k - 1) = 1
          /\ ToLower(line[i + k - 1].s) \in
                (IF k = Len(sep) THEN WordsStarting(sep[k]) ELSE {sep[k]})

RECURSIVE FirstSeparator(_, _, _)
\* possibleValueSep on the part of the line made of the pieces of the set in:
\* the piece where the first separator of the list that occurs starts, 0 for -1
FirstSeparator(line, in, n) ==
    IF n > Len(EnumSeparators) THEN 0
    ELSE IF \E i \in in : SeparatorAt(line, i, EnumSeparators[n])
         THEN Min({i \in in : SeparatorAt(line, i, EnumSeparators[n])})
         ELSE FirstSeparator(line, in, n + 1)

\* the positions of a set of naturals in increasing order
RECURSIVE Sorted(_)
Sorted(S) == IF S = {} THEN <<>> ELSE <<Min(S)>> \o Sorted(S \ {Min(S)})

\* what codeReg finds between the backticks that pair up once a slice starts
\* inside a backtick-quoted piece
BetweenTokens == "<text between two tokens>"

\* the first piece that starts at or after byte sepIdx of the line
FirstInside(line, sepIdx) ==
    IF \E j \in 1..Len(line) : OffsetOf(line, j, FALSE) >= sepIdx
    THEN Min({j \in 1..Len(line) : OffsetOf(line, j, FALSE) >= sepIdx})
    ELSE Len(line) + 1

\* the piece a slice at byte sepIdx cuts in two, 0 when it cuts none
CutPiece(line, sepIdx, first) ==
    IF first > 1 /\ OffsetOf(line, first - 1, FALSE) + PieceBytes(line[first - 1]) > sepIdx
    THEN first - 1 ELSE 0

\* the pieces from first on, after a slice that cut the piece cut: a word cut
\* by the slice leaves its final period, a backtick-quoted piece cut by it
\* leaves a backtick that pairs with the next one
SlicePieces(line, first, cut) ==
    IF cut = 0 THEN From(line, first)
    ELSE IF line[cut].k = "c"
         THEN [j \in 1..(Len(line) - first + 1) |->
                  IF line[first + j - 1].k = "c" THEN C(BetweenTokens) ELSE line[first + j - 1]]
    ELSE IF line[cut].s \in HasPeriod THEN <<W(".")>> \o From(line, first)
    ELSE From(line, first)

\* line[sepIdx:] as pieces
SliceFrom(line, sepIdx) ==
    SlicePieces(line, FirstInside(line, sepIdx),
                CutPiece(line, sepIdx, FirstInside(line, sepIdx)))

\* pointEnd := strings.Index(subStr, "."), len(subStr) when there is none
PointEnd(subStr) ==
    IF \E q \in 1..Len(subStr) : subStr[q].s \in HasPeriod
    THEN Min({q \in 1..Len(subStr) : subStr[q].s \in HasPeriod})
    ELSE Len(subStr) + 1

RECURSIVE ScanEnums(_, _, _)
\* the loop over enumIndex: codes are the positions of the backtick-quoted
\* pieces of subStr still to visit, pointEnd the piece holding the period
\* that ends the section (Len(sub) + 1 for len(subStr))
ScanEnums(sub, codes, pointEnd) ==
    IF codes = <<>> THEN <<>>
    ELSE IF pointEnd = Head(codes)
         THEN ScanEnums(sub, codes, PointEnd(SubSeq(sub, Head(codes) + 1, Len(sub))) + Head(codes))
    ELSE IF pointEnd < Head(codes) THEN <<>>
    ELSE <<sub[Head(codes)].s>> \o ScanEnums(sub, Tail(codes), pointEnd)

\* the values collected from subStr
EnumsOf(subStr) == ScanEnums(subStr, Sorted(CodePositions(subStr)), PointEnd(subStr))

\* possibleValueSep(line): the byte index in the lower-cased line, -1 for none
SepIndex(line, at) == IF at = 0 THEN -1 ELSE OffsetOf(line, at, TRUE)

\* possibleValueSep(line[sepIdx+1:]) >= 0
SecondSeparator(line, sepIdx) ==
    FirstSeparator(line, {j \in 1..Len(line) : OffsetOf(line, j, FALSE) >= sepIdx + 1}, 1) # 0

\* extractPossibleValues once sepIdx is known
EnumsFrom(line, sepIdx) ==
    IF sepIdx <= 0 THEN [panic |-> FALSE, enums |-> <<>>, errs |-> <<>>]
    ELSE IF sepIdx >= ByteLen(line) THEN [panic |-> TRUE, enums |-> <<>>, errs |-> <<>>]
    ELSE [panic |-> FALSE,
          enums |-> EnumsOf(SliceFrom(line, sepIdx)),
          errs  |-> IF SecondSeparator(line, sepIdx)
                    THEN <<"multiple possible value sections detected, skipping enum extraction">>
                    ELSE <<>>]

\* extractPossibleValues: whether it panics on a slice out of range, the
\* values it returns and the parse errors it appends
extractPossibleValues(line) ==
    EnumsFrom(line, SepIndex(line, FirstSeparator(line, 1..Len(line), 1)))

RECURSIVE Dedup(_, _)
\* AddEnum: the values not yet present are appended in order
Dedup(values, acc) ==
    IF values = <<>> THEN acc
    ELSE Dedup(Tail(values), IF Head(values) \in Range(acc) THEN acc
                             ELSE Append(acc, Head(values)))

\* ForceNewReg: Changing.*forces? a [^.]*(\.|$); the pieces j where a match
\* has its "forces a "
ForceNewAt(line) ==
    {j \in 2..(Len(line) - 2) :
        /\ line[j].k = "w" /\ line[j].s \in {"forces", "force"}
        /\ line[j + 1] = W("a")
        /\ SepBefore(line, j + 2) = 1
        /\ \E i \in 1..(j - 1) : line[i] = W("Changing")}

\* partForceNewReg: Changing.*forces? a [^.]* created when [^.]*(\.|$)
PartForceNew(line) ==
    \E j \in ForceNewAt(line) :
        \E k \in (j + 3)..(Len(line) - 2) :
            /\ line[k] = W("created") /\ line[k + 1] = W("when")
            /\ SepBefore(line, k + 2) = 1
            /\ \A m \in (j + 2)..(k - 1) : line[m].s \notin HasPeriod

\* a force-new test that wants the words resource and created after "forces a"
isForceNewResourceCreated(line) ==
    /\ \E j \in ForceNewAt(line) :
          \E r \in (j + 2)..Len(line) : \E k \in (r + 1)..Len(line) :
              line[r] = W("resource") /\ line[k] = W("created")
    /\ ~PartForceNew(line)

\* isForceNew
isForceNew(line) == ForceNewAt(line) # {} /\ ~PartForceNew(line)

\* a field extraction panics when extractPossibleValues does; it is called
\* only when fieldReg matched
ExtractPanics(line) == FieldRegEnd(line) # 0 /\ extractPossibleValues(line).panic

\* res[3] of fieldReg: the line after the name, the dash and the requirement
\* marker, when the name ends at piece e
Description(line, e) ==
    From(line, IF line[e + 2] \in {W("(Required)"), W("(Optional)")} /\ e + 2 < Len(line)
               THEN e + 3 ELSE e + 2)

\* the tokens codeReg finds in res[3] when strings.Index(res[3], "`") > 0
GuessTokens(desc) ==
    IF CodePositions(desc) # {} /\ Min(CodePositions(desc)) > 1
    THEN [i \in 1..Len(Codes(desc)) |-> Codes(desc)[i].s]
    ELSE <<>>

\* field.AddEnum(enums...), the parse errors of extractPossibleValues and the
\* fallback field.SetGuessEnums(guessValues)
WithEnums(field, r, guesses) ==
    [field EXCEPT !.PossibleValues = Dedup(r.enums, <<>>),
                  !.GuessEnums = IF Dedup(r.enums, <<>>) = <<>> THEN Dedup(guesses, <<>>)
                                 ELSE <<>>,
                  !.ParseErrors = @ \o r.errs]

\* the block detection at the end of ExtractFieldFromLine
WithBlock(field, line, name) ==
    IF guessBlockProperty(line)
    THEN [field EXCEPT !.Block = TRUE, !.BlockTypeName = extractBlockTypeName(line, name)]
    ELSE field

\* the (Required) / (Optional) switch on res[2]
WithRequirement(field, line, matched) ==
    [field EXCEPT
        !.Required = matched /\ (HasPiece(line, {"(Required)"})
                                 \/ (~HasPiece(line, {"(Optional)"}) /\ HasPiece(line, {"Required"}))),
        !.Optional = /\ matched
                     /\ ~(HasPiece(line, {"(Required)"})
                          \/ (~HasPiece(line, {"(Optional)"}) /\ HasPiece(line, {"Required"})))
                     /\ HasPiece(line, {"(Optional)", "Optional"})]

\* ExtractFieldFromLine once the name is known: matched tells whether fieldReg
\* matched the line
ExtractNamed(field, line, matched, name) ==
    IF name = ""
    THEN [field EXCEPT !.ParseErrors = Append(@, "no field name found")]
    ELSE WithBlock(IF matched
                   THEN WithEnums(WithRequirement([field EXCEPT !.Name = name], line, matched),
                                  extractPossibleValues(line),
                                  GuessTokens(Description(line, FieldRegEnd(line))))
                   ELSE WithRequirement([field EXCEPT !.Name = name], line, matched),
                   line, name)

\* ExtractFieldFromLine (name, requirement, enums, force-new, block detection)
ExtractFieldFromLine(line, position, lineNumber) ==
    ExtractNamed([ZeroProperty EXCEPT !.Content = line, !.Line = lineNumber,
                                      !.Position = position, !.ForceNew = isForceNew(line)],
                 line, FieldRegEnd(line) # 0,
                 IF FieldRegEnd(line) # 0 THEN FieldRegName(line) ELSE FirstCodeValue(line))

----------------------------------------------------------------------------
(* The section builder: ArgumentsSection / AttributesSection               *)

\* words beginning with * or -
StarDashStart == {"*", "-", "->", "---"}

\* a dotted path is kept as the sequence of its names: a + "." + b
DotJoin(a, b) == <<a, b>>

\* the insertion of an extracted field into the level ps: the Arguments section
\* calls AddField, the Attributes section passes the field to AddProperty
AddExtracted(kind, h, ps, field) ==
    IF kind = "args" THEN ParsedProperties_AddField(h, ps, field)
    ELSE LET h1 == AllocProp(h, field)
         IN ParsedProperties_AddProperty(h1, ps, LastProp(h1))

\* the skipped lines: empty, HTML comment and, in the Arguments section, notes
IsSkipped(kind, line) ==
    \/ line = <<>>
    \/ line[1] = W("<!--")
    \/ kind = "args" /\ line[1] \in {W("->"), W("~>")}

\* the loop's state: the heap, properties (root), currentBlock (cur), inBlock
\* if inBlock && currentBlock != nil { properties.AddProperty(currentBlock) }
CommitBlock(st) ==
    IF st.inBlock /\ st.cur # 0
    THEN [st EXCEPT !.h = ParsedProperties_AddProperty(st.h, st.root, st.cur)]
    ELSE st

\* the new current block of a block-head line whose names are def.blockNames;
\* h already holds the new block's Nested as its last Properties
NewBlock(h, def, position, line, lineNum) ==
    AllocProp(h, [ZeroProperty EXCEPT
                     !.Name = def.blockNames[1], !.Block = TRUE,
                     !.BlockTypeName = def.blockNames[1],
                     !.Position = position, !.Line = lineNum,
                     !.Content = line, !.Nested = LastProps(h),
                     !.Path = IF def.blockOf # ""
                              THEN DotJoin(def.blockOf, def.blockNames[1])
                              ELSE <<>>])

\* the block-head branch, after the commit of the open block
OpenBlock(st, def, position, line, lineNum) ==
    IF Len(def.blockNames) > 0
    THEN [st EXCEPT !.h = NewBlock(AllocProps(st.h), def, position, line, lineNum),
                    !.cur = Len(st.h.prop) + 1, !.inBlock = TRUE]
    ELSE st

\* a separator branch that closes the open block and never commits it
CloseBlockWithoutCommit(st) == [st EXCEPT !.cur = 0, !.inBlock = FALSE]

\* the separator branch: the open block is committed and closed
CloseBlock(st) ==
    [CommitBlock(st) EXCEPT !.cur = IF st.inBlock /\ st.cur # 0 THEN 0 ELSE @,
                            !.inBlock = FALSE]

\* every extracted field goes to the root
RootLevel(st) == st.root

\* the level a field line is inserted into: the Nested of the open block,
\* the root when no block is open
InsertionLevel(st) ==
    IF st.inBlock /\ st.cur # 0 THEN st.h.prop[st.cur].Nested ELSE st.root

\* the field-line branch: a field without a name is dropped
InsertField(kind, st, field) ==
    IF field.Name = "" THEN st
    ELSE [st EXCEPT !.h = AddExtracted(kind, @, InsertionLevel(st), field)]

PositionOf(kind) == IF kind = "args" THEN "PosArgs" ELSE "PosAttr"

\* the body of the loop of ParseFields for one line
ParseLine(kind, st, line, lineNum) ==
    IF IsSkipped(kind, line) THEN st
    ELSE IF IsBlockHead(line)
    THEN OpenBlock(CommitBlock(st), ProcessBlockDefinition(line), PositionOf(kind), line, lineNum)
    ELSE IF line = <<W("---")>> THEN CloseBlock(st)
    ELSE IF line[1].k = "w" /\ line[1].s \in StarDashStart
    THEN InsertField(kind, st, ExtractFieldFromLine(line, PositionOf(kind), lineNum))
    ELSE st

RECURSIVE ParseLoop(_, _, _, _)
\* for lineNum, line := range s.content, from index i (lineNum = i - 1)
ParseLoop(kind, st, content, i) ==
    IF i > Len(content) THEN st
    ELSE ParseLoop(kind, ParseLine(kind, st, content[i], i - 1), content, i + 1)

\* properties := parser.NewParsedProperties(), no block open
StartState(h) == [h |-> h, root |-> Len(h.props), cur |-> 0, inBlock |-> FALSE]

\* the commit of the last block after the loop, and the returned root
EndState(st) == [h |-> CommitBlock(st).h, root |-> st.root]

\* the uncached path of ParseFields: the heap after the build, and the root
BuildFields(kind, h, content) ==
    EndState(ParseLoop(kind, StartState(AllocProps(h)), content, 1))

----------------------------------------------------------------------------
(* From the parser's tree to the data tree, and the linking pass           *)

RECURSIVE convertParsedPropertiesToProperties(_, _), ConvertNames(_, _, _, _),
          convertParsedPropertyToProperty(_, _)

\* convertParsedPropertyToProperty: a new data.Property with the listed fields
\* copied (Count is not among them) and the nested tree converted
convertParsedPropertyToProperty(h, parsed) ==
    IF parsed = 0 THEN [h |-> h, id |-> 0]
    ELSE LET src == h.prop[parsed]
             n   == convertParsedPropertiesToProperties(h, src.Nested)
             h1  == AllocProp(n.h, [src EXCEPT !.Count = 0, !.Nested = n.id])
         IN [h |-> h1, id |-> LastProp(h1)]

\* the loop over parsed.Names of convertParsedPropertiesToProperties, from i
ConvertNames(h, parsed, result, i) ==
    IF i > Len(h.props[parsed].Names) THEN h
    ELSE LET name == h.props[parsed].Names[i] IN
         IF name \in DOMAIN h.props[parsed].Objects
         THEN LET c  == convertParsedPropertyToProperty(h, h.props[parsed].Objects[name])
                  h1 == [c.h EXCEPT !.props[result].Names = Append(@, name),
                                    !.props[result].Objects = MapPut(@, name, c.id)]
              IN ConvertNames(h1, parsed, result, i + 1)
         ELSE ConvertNames(h, parsed, result, i + 1)

convertParsedPropertiesToProperties(h, parsed) ==
    IF parsed = 0 THEN [h |-> h, id |-> 0]
    ELSE LET h0 == AllocProps(h)
         IN [h |-> ConvertNames(h0, parsed, LastProps(h0), 1), id |-> LastProps(h0)]

\* len(prop.Nested.Objects) > 0, false for a nil Nested
HasNested(h, p) == h.prop[p].Nested # 0 /\ DOMAIN h.props[h.prop[p].Nested].Objects # {}

RECURSIVE Perms(_)
\* the orders in which a Go map with key set S can be ranged over
Perms(S) == IF S = {} THEN {<<>>}
            ELSE UNION {{<<x>> \o q : q \in Perms(S \ {x})} : x \in S}

\* the keys of the map m in the order a range statement visits them, when
\* ord lists all names in the order this run enumerates maps
RangeOrder(m, ord) == SeqFilter(ord, DOMAIN m)

RECURSIVE CollectDefinitions(_, _, _, _)
\* the first loop of BuildBlockStructure over the keys in the order keys
CollectDefinitions(h, ps, keys, defs) ==
    IF keys = <<>> THEN defs
    ELSE LET name == Head(keys)
             p    == h.props[ps].Objects[name]
             btn  == h.prop[p].BlockTypeName
             d1   == IF h.prop[p].Block /\ HasNested(h, p) THEN MapPut(defs, name, p) ELSE defs
             d2   == IF h.prop[p].Block /\ HasNested(h, p) /\ btn # "" /\ btn # name
                     THEN MapPut(d1, btn, p) ELSE d1
         IN CollectDefinitions(h, ps, Tail(keys), d2)

\* a lookup key that is always the Name of the Property
BlockNameIsName(h, p) == h.prop[p].Name

\* blockName of fillBlockFields: BlockTypeName, the Name when that is empty
BlockNameOf(h, p) ==
    IF h.prop[p].BlockTypeName = "" THEN h.prop[p].Name ELSE h.prop[p].BlockTypeName

RECURSIVE fillBlockFields(_, _, _, _, _), FillNested(_, _, _, _, _)

\* the closure fillBlockFields of BuildBlockStructure.  r = [h, ok]: ok turns
\* FALSE when the recursion is deeper than the number of Property objects,
\* that is when it has entered a Property it is still working on: the Go
\* recursion then never returns and ends in the runtime's stack overflow.
fillBlockFields(r, defs, p, ord, depth) ==
    IF ~r.ok THEN r
    ELSE IF depth > Len(r.h.prop) THEN [r EXCEPT !.ok = FALSE]
    ELSE LET h == r.h
             blockName == BlockNameOf(h, p)
             h1 == IF /\ h.prop[p].Block /\ ~HasNested(h, p)
                      /\ blockName \in DOMAIN defs
                      /\ h.prop[defs[blockName]].Nested # 0
                   THEN [h EXCEPT !.prop[p].Nested = h.prop[defs[blockName]].Nested]
                   ELSE h
         IN IF h1.prop[p].Nested # 0
            THEN FillNested([r EXCEPT !.h = h1], defs,
                            [i \in 1..Len(RangeOrder(h1.props[h1.prop[p].Nested].Objects, ord)) |->
                                h1.props[h1.prop[p].Nested].Objects[
                                    RangeOrder(h1.props[h1.prop[p].Nested].Objects, ord)[i]]],
                            ord, depth)
            ELSE [r EXCEPT !.h = h1]

\* a loop calling fillBlockFields on each Property of the list todo
FillNested(r, defs, todo, ord, depth) ==
    IF todo = <<>> \/ ~r.ok THEN r
    ELSE FillNested(fillBlockFields(r, defs, Head(todo), ord, depth + 1), defs, Tail(todo),
                    ord, depth)

\* Properties.BuildBlockStructure on the tree ps
BuildBlockStructure(h, ps, ord) ==
    IF ps = 0 THEN [h |-> h, ok |-> TRUE]
    ELSE LET keys == RangeOrder(h.props[ps].Objects, ord)
             defs == CollectDefinitions(h, ps, keys, EmptyMap)
         IN FillNested([h |-> h, ok |-> TRUE], defs,
                       [i \in 1..Len(keys) |-> h.props[ps].Objects[keys[i]]], ord, 0)

----------------------------------------------------------------------------
(* The section object and the node data built from it                      *)

\* a SetContent that stores the content and keeps the cached tree
SetContentKeepingCache(s, content) == [s EXCEPT !.content = content]

\* ArgumentsSection.SetContent / AttributesSection.SetContent
SetContentOp(s, content) == [s EXCEPT !.content = content, !.parsedFields = 0]

\* ParseFields: the cached tree when there is one, else a newly built tree,
\* which is cached.  built tells which of the two paths ran.
ParseFieldsOp(h, s) ==
    IF s.parsedFields # 0
    THEN [h |-> h, s |-> s, ret |-> s.parsedFields, built |-> FALSE]
    ELSE LET b == BuildFields(s.kind, h, s.content)
         IN [h |-> b.h, s |-> [s EXCEPT !.parsedFields = b.root], ret |-> b.root,
             built |-> TRUE]

\* the assignment rd.DocumentArguments = convert...(argsSection.ParseFields()):
\* r is what ParseFields returned, c what the conversion returned
AssignDocumentArguments(r, c) ==
    [h |-> c.h, s |-> r.s, DocumentArguments |-> c.id, built |-> r.built]

\* the conversion of the tree ParseFields returned
ConvertSection(r) ==
    AssignDocumentArguments(r, convertParsedPropertiesToProperties(r.h, r.ret))

\* populateDocumentProperties, for the one section of the model
populateDocumentProperties(h, s) == ConvertSection(ParseFieldsOp(h, s))

\* the lines the contents are made of
LineName == <<W("*"), C("name"), W("-"), W("(Required)"), W("text.")>>
LineSource == <<W("*"), C("source"), W("-"), W("(Optional)"), W("An"), C("endpoint"),
                W("block"), W("as"), W("defined"), W("below.")>>
LineDest == <<W("*"), C("dest"), W("-"), W("(Optional)"), W("An"), C("endpoint"),
              W("block"), W("as"), W("defined"), W("below.")>>
LineEndpoint == <<W("*"), C("endpoint"), W("-"), W("(Optional)"), W("An"), C("endpoint"),
                  W("block"), W("as"), W("defined"), W("below.")>>
LineHead == <<W("An"), C("endpoint"), W("block"), W("supports"), W("the"), W("following:")>>
LineSeparator == <<W("---")>>
LineNote == <<W("->"), C("name"), W("text.")>>

LinePool == {LineName, LineSource, LineDest, LineEndpoint, LineHead, LineSeparator, LineNote}

RECURSIVE SeqsUpTo(_, _)
\* the sequences over S of length at most n
SeqsUpTo(S, n) ==
    IF n = 0 THEN {<<>>}
    ELSE LET shorter == SeqsUpTo(S, n - 1)
         IN shorter \cup {Append(q, x) : q \in {r \in shorter : Len(r) = n - 1}, x \in S}

\* the names a content's tree can hold, for the map enumeration orders
NamesOf(h) == {h.prop[p].Name : p \in 1..Len(h.prop)}

InitSection(m) ==
    /\ mode = m
    /\ heap = EmptyHeap
    /\ hist = [gen |-> 0, sets |-> 0, last |-> "new", linked |-> FALSE, crashed |-> FALSE]
    /\ \E k \in {"args", "attrs"} : sec = [kind |-> k, content |-> <<>>, parsedFields |-> 0]
    /\ node = [SchemaProperties |-> 0, DocumentArguments |-> 0]
    /\ out = [ret |-> 0, gen |-> 0]

Alive == mode \in {"section", "cache"} /\ ~hist.crashed

\* s.SetContent(c).  The tree the section held is no longer reachable from it
\* and is dropped from the heap; a tree object is identified by its index
\* together with the number of the build that made it (hist.gen).
SetContent ==
    /\ Alive
    /\ node.DocumentArguments = 0
    /\ hist.sets < (IF mode = "cache" THEN MaxSets ELSE 1)
    /\ \E c \in SeqsUpTo(LinePool, IF mode = "cache" THEN MaxCacheLines ELSE MaxLines) :
        sec' = SetContentOp(sec, c)
    /\ heap' = IF sec'.parsedFields = 0 THEN EmptyHeap ELSE heap
    /\ hist' = [hist EXCEPT !.sets = @ + 1, !.last = "set"]
    /\ UNCHANGED <<mode, node, out>>

\* s.ParseFields()
ParseFields ==
    /\ Alive
    /\ node.DocumentArguments = 0
    /\ \E r \in {ParseFieldsOp(heap, sec)} :
          /\ heap' = r.h
          /\ sec' = r.s
          /\ hist' = [hist EXCEPT !.gen = IF r.built THEN @ + 1 ELSE @,
                                   !.last = IF r.built THEN "parse" ELSE "cached"]
          /\ out' = [ret |-> r.ret, gen |-> hist'.gen]
    /\ UNCHANGED <<mode, node>>

\* rd.populateDocumentProperties()
Populate ==
    /\ Alive /\ mode = "section"
    /\ node.DocumentArguments = 0
    /\ hist.sets > 0
    /\ \E r \in {populateDocumentProperties(heap, sec)} :
          /\ heap' = r.h
          /\ sec' = r.s
          /\ node' = [node EXCEPT !.DocumentArguments = r.DocumentArguments]
          /\ hist' = [hist EXCEPT !.gen = IF r.built THEN @ + 1 ELSE @, !.last = "populate"]
    /\ UNCHANGED <<mode, out>>

\* rd.DocumentArguments.BuildBlockStructure()
Link ==
    /\ Alive /\ mode = "section"
    /\ node.DocumentArguments # 0
    /\ ~hist.linked
    /\ \E ord \in Perms(NamesOf(heap)) :
        \E r \in {BuildBlockStructure(heap, node.DocumentArguments, ord)} :
           /\ heap' = r.h
           /\ hist' = [hist EXCEPT !.linked = TRUE, !.crashed = ~r.ok, !.last = "link"]
    /\ UNCHANGED <<mode, sec, node, out>>

NextSection == SetContent \/ ParseFields \/ Populate \/ Link

SpecSection == InitSection("section") /\ [][NextSection]_vars

NextCache == SetContent \/ ParseFields

SpecCache == InitSection("cache") /\ [][NextCache]_vars

----------------------------------------------------------------------------
(* Claims about the section builder and the linking pass                   *)

\* the block type a field line is documented to refer to: the backtick-quoted
\* piece of the phrase "<article> `type` block ... below", "" when the line
\* has no such phrase
DocumentedBlockType(line) ==
    LET at == {i \in 1..(Len(line) - 2) :
                  /\ line[i].k = "w" /\ line[i].s \in QuantifierEnd
                  /\ line[i + 1].k = "c"
                  /\ line[i + 2].k = "w" /\ line[i + 2].s \in BlockOrObjectStart}
    IN IF at = {} THEN "" ELSE line[Min(at) + 1].s

\* the root-level fields of the linked tree documented as references to the
\* block type t whose line comes before the line of t's definition
ReferencesBefore(t) ==
    LET root == heap.props[node.DocumentArguments].Objects
    IN {n \in DOMAIN root \ {t} :
           /\ heap.prop[root[n]].Block
           /\ heap.prop[root[n]].Content # <<>>
           /\ ~IsBlockHead(heap.prop[root[n]].Content)
           /\ DocumentedBlockType(heap.prop[root[n]].Content) = t
           /\ heap.prop[root[n]].Line < heap.prop[root[t]].Line}

\* the names of the root level that are block definitions with a body
DefinitionsWithBody ==
    LET root == heap.props[node.DocumentArguments].Objects
    IN {t \in DOMAIN root : /\ heap.prop[root[t]].Block
                            /\ IsBlockHead(heap.prop[root[t]].Content)
                            /\ HasNested(heap, root[t])}

Linked == mode = "section" /\ hist.linked /\ ~hist.crashed /\ node.DocumentArguments # 0

\* C2: after ParseFields, conversion and the linking pass, two different
\* fields documented as references to the same block type, whose body comes
\* after both, have as nested tree the very tree object of the definition.
C2_ReferencesShareDefinitionTree ==
    Linked =>
        \A t \in DefinitionsWithBody :
            \A n1, n2 \in ReferencesBefore(t) :
                n1 # n2 =>
                    LET root == heap.props[node.DocumentArguments].Objects
                    IN /\ heap.prop[root[n1]].Nested = heap.prop[root[t]].Nested
                       /\ heap.prop[root[n2]].Nested = heap.prop[root[t]].Nested

\* C3: the linking recursion of BuildBlockStructure returns on every tree
\* the section builder produces, self-referring blocks included.
C3_LinkingRecursionReturns == mode = "section" => ~hist.crashed

\* what ParseFields returned last is the tree of the section's content
ReturnsTreeOfContent ==
    (mode = "cache" /\ hist.last \in {"parse", "cached"}) =>
        /\ out.ret = sec.parsedFields
        /\ out.ret = BuildFields(sec.kind, EmptyHeap, sec.content).root
        /\ heap = BuildFields(sec.kind, EmptyHeap, sec.content).h

\* a ParseFields after a ParseFields returns the same object of the same
\* build; a ParseFields after a SetContent returns the tree of a new build
CachedUntilSetContent ==
    /\ (hist.last \in {"parse", "cached"} /\ hist'.last \in {"parse", "cached"})
          => (hist'.last = "cached" /\ out' = out)
    /\ (hist.last = "set" /\ hist'.last \in {"parse", "cached"})
          => (hist'.last = "parse" /\ out'.gen = hist.gen + 1)

\* C4: under any interleaving of SetContent and ParseFields, ParseFields
\* returns the tree built from the content set last, returns the identical
\* object while no SetContent intervenes, and rebuilds after a SetContent.
C4_CacheFollowsContent ==
    [](mode = "cache" => ReturnsTreeOfContent) /\ [][mode = "cache" => CachedUntilSetContent]_vars

\* a cached return after a rebuild that followed a second SetContent
C4_Witness ==
    /\ mode = "cache" /\ hist.last = "cached"
    /\ hist.sets >= 2 /\ hist.gen >= 2
    /\ heap.prop # <<>>
    /\ out.ret = sec.parsedFields


----------------------------------------------------------------------------
(* SpecLevel: insertions into one tree level, one level per insertion API  *)

LevelNames == {"a", "b"}

\* the three levels: a data.Properties, a parser.ParsedProperties and the
\* Nested level of a parent data.Property
DataLevel == 1
ParserLevel == 2
ParentProp == 1
SubLevel == heap.prop[ParentProp].Nested

InitLevel ==
    /\ mode = "level"
    /\ heap = [props |-> <<NewProperties, NewProperties>>,
               prop |-> <<[ZeroProperty EXCEPT !.Name = "parent", !.Block = TRUE]>>]
    /\ hist = [data |-> <<>>, parser |-> <<>>, sub |-> <<>>]
    /\ sec = [content |-> <<>>, parsedFields |-> 0]
    /\ node = [SchemaProperties |-> 0, DocumentArguments |-> 0]
    /\ out = <<>>

CanInsert == mode = "level" /\ Len(heap.prop) <= MaxIns

\* props.AddProperty(&Property{Name: n}) on a data.Properties
DataAddProperty ==
    /\ CanInsert
    /\ \E n \in LevelNames \cup {""} :
        LET h1 == AllocProp(heap, [ZeroProperty EXCEPT !.Name = n])
            p  == LastProp(h1)
        IN /\ heap' = Properties_AddProperty(h1, DataLevel, p)
           /\ hist' = IF n = "" THEN hist ELSE [hist EXCEPT !.data = Append(@, p)]
    /\ UNCHANGED <<mode, sec, node, out>>

\* props.AddProperty(&ParsedProperty{Name: n}) on a parser.ParsedProperties
ParserAddProperty ==
    /\ CanInsert
    /\ \E n \in LevelNames \cup {""} :
        LET h1 == AllocProp(heap, [ZeroProperty EXCEPT !.Name = n])
            p  == LastProp(h1)
        IN /\ heap' = ParsedProperties_AddProperty(h1, ParserLevel, p)
           /\ hist' = IF n = "" THEN hist ELSE [hist EXCEPT !.parser = Append(@, p)]
    /\ UNCHANGED <<mode, sec, node, out>>

\* props.AddField(&ParsedField{Name: n}) on a parser.ParsedProperties
ParserAddField ==
    /\ CanInsert
    /\ \E n \in LevelNames \cup {""} :
        LET h1 == ParsedProperties_AddField(heap, ParserLevel, [ZeroProperty EXCEPT !.Name = n])
        IN /\ heap' = h1
           /\ hist' = IF n = "" THEN hist ELSE [hist EXCEPT !.parser = Append(@, LastProp(h1))]
    /\ UNCHANGED <<mode, sec, node, out>>

\* parent.AddSubProperty(&Property{Name: n})
AddSubProperty ==
    /\ CanInsert
    /\ \E n \in LevelNames :
        LET h1 == AllocProp(heap, [ZeroProperty EXCEPT !.Name = n])
            p  == LastProp(h1)
        IN /\ heap' = Property_AddSubProperty(h1, ParentProp, p)
           /\ hist' = [hist EXCEPT !.sub = Append(@, p)]
    /\ UNCHANGED <<mode, sec, node, out>>

NextLevel == DataAddProperty \/ ParserAddProperty \/ ParserAddField \/ AddSubProperty

SpecLevel == InitLevel /\ [][NextLevel]_vars

----------------------------------------------------------------------------
(* C1 *)

\* the Property ids passed to the insertions of name n, in call order
InsertedAs(calls, n) == SeqFilter(calls, {p \in Range(calls) : heap.prop[p].Name = n})

\* the level ps, after the insertions calls, is as the data model requires:
\* every name once, the first Property kept, later ones counted as duplicates
LevelKeepsFirst(ps, calls) ==
    LET names == IF ps = 0 THEN <<>> ELSE heap.props[ps].Names
        objs  == IF ps = 0 THEN EmptyMap ELSE heap.props[ps].Objects
    IN /\ \A i, j \in 1..Len(names) : i # j => names[i] # names[j]
       /\ Range(names) = {heap.prop[p].Name : p \in Range(calls)}
       /\ DOMAIN objs = Range(names)
       /\ \A n \in DOMAIN objs :
            LET same == InsertedAs(calls, n)
                k    == Len(same) - 1
            IN /\ objs[n] = same[1]
               /\ heap.prop[objs[n]].Count = k
               /\ heap.prop[objs[n]].ParseErrors = [i \in 1..k |-> DuplicateError]

\* C1: after any sequence of insertions into one tree level (AddProperty, the
\* section builder's AddField/AddProperty, AddSubProperty) each name is in the
\* level's name list once, the stored Property is the first one inserted, and k
\* further insertions of the name raise its duplicate count by k and append k
\* 'duplicate field in same section' parse errors.
C1_DuplicatesRecordedAtEveryLevel ==
    mode = "level" =>
        /\ LevelKeepsFirst(DataLevel, hist.data)
        /\ LevelKeepsFirst(ParserLevel, hist.parser)
        /\ LevelKeepsFirst(SubLevel, hist.sub)

\* the part of C1 that the code does keep: data.Properties.AddProperty
C1_DataLevelKeepsFirst == mode = "level" => LevelKeepsFirst(DataLevel, hist.data)

----------------------------------------------------------------------------
(* Rule S006, the cross-reference validator                                *)

\* a diagnostic is the error's kind (the phrase of its message), the dotted
\* path it prints (the sequence of the path's names) and the line it prints
MissingInDocError(fullPath) ==
    [kind |-> "is missing from documentation", path |-> fullPath, line |-> 0]

ShouldBeBlockError(fullPath, docProperty) ==
    [kind |-> "should be declared as a block", path |-> fullPath, line |-> docProperty.Line]

\* the Errorf call without operands: every verb prints %!s(MISSING), the
\* message holds neither the rule, nor a path, nor a line (line -1 here)
BlockMissingError ==
    [kind |-> "block is missing from documentation", path |-> <<"%!s(MISSING)">>, line |-> -1]

NotInSchemaError(fullPath, docProperty) ==
    [kind |-> "does not exist in schema", path |-> fullPath, line |-> docProperty.Line]

\* a skip test that drops every property that is neither Required nor Optional
IsNotUserSettable(property) == ~property.Required /\ ~property.Optional

\* !property.Optional && property.Computed
IsComputedOnly(property) == ~property.Optional /\ property.Computed

\* a block declaration check that reports nothing for a plain doc field
BlockDeclarationUnchecked(fullPath, docProperty) ==
    IF ~docProperty.Block THEN <<>> ELSE <<BlockMissingError>>

\* the branch taken when the schema property has nested content and the doc
\* property has none
BlockDeclarationErrors(fullPath, docProperty) ==
    IF ~docProperty.Block THEN <<ShouldBeBlockError(fullPath, docProperty)>>
    ELSE <<BlockMissingError>>

RECURSIVE checkMissingInDoc(_, _, _, _, _), MissingInDocLoop(_, _, _, _, _, _)

\* the loop of checkMissingInDoc over the keys of schema.Objects, in the
\* order keys
MissingInDocLoop(h, parentPath, schema, documentation, keys, ord) ==
    IF keys = <<>> THEN <<>>
    ELSE LET name == Head(keys)
             p == h.props[schema].Objects[name]
             fullPath == Append(parentPath, name)
             docs == h.props[documentation].Objects
         IN (IF IsComputedOnly(h.prop[p]) \/ name = "id" \/ h.prop[p].Deprecated THEN <<>>
             ELSE IF name \notin DOMAIN docs THEN <<MissingInDocError(fullPath)>>
             ELSE IF ~HasNested(h, p) THEN <<>>
             ELSE IF ~HasNested(h, docs[name])
                  THEN BlockDeclarationErrors(fullPath, h.prop[docs[name]])
             ELSE checkMissingInDoc(h, fullPath, h.prop[p].Nested,
                                    h.prop[docs[name]].Nested, ord))
            \o MissingInDocLoop(h, parentPath, schema, documentation, Tail(keys), ord)

\* S006.checkMissingInDoc; ord is the order in which this call's runtime
\* enumerates maps
checkMissingInDoc(h, parentPath, schema, documentation, ord) ==
    IF schema = 0 THEN <<>>
    ELSE MissingInDocLoop(h, parentPath, schema, documentation,
                          RangeOrder(h.props[schema].Objects, ord), ord)

\* strings.Contains(strings.ToLower(docProperty.Content), "deprecated")
MentionsDeprecated(content) == HasPiece(content, HasDeprecated)

\* strings.Index(strings.ToLower(content), "not available for"): the piece
\* where the first occurrence starts, 0 when there is none
NotAvailableIndex(content) ==
    LET at == {i \in 1..(Len(content) - 2) :
                  /\ content[i].k = "w" /\ ToLower(content[i].s) = "not"
                  /\ content[i + 1].k = "w" /\ ToLower(content[i + 1].s) = "available"
                  /\ content[i + 2].k = "w" /\ ToLower(content[i + 2].s) = "for"}
    IN IF at = {} THEN 0 ELSE Min(at)

\* the backtick-quoted tokens of the contents and the names they are a
\* substring of
SubstringPairs == {<<"ident", "identity">>, <<"identity", "identity">>,
                   <<"name", "name">>, <<"kind", "kind">>, <<"type", "type">>}

\* strings.Contains(fullPath, codeValue) for a token without a dot: it lies
\* within one of the names the path is joined from
PathContains(fullPath, codeValue) ==
    \E i \in 1..Len(fullPath) : <<codeValue, fullPath[i]>> \in SubstringPairs

\* an exception test that accepts any backtick-quoted token after the phrase
AnyTokenException(content, fullPath) ==
    /\ NotAvailableIndex(content) > 1
    /\ \E i \in CodePositions(content) :
          i > NotAvailableIndex(content) /\ PathContains(fullPath, content[i].s)

\* the "not available for" exception: idx > 0, a non-empty first code value
\* in content[idx:] and that value within the path
NotAvailableException(content, fullPath) ==
    /\ NotAvailableIndex(content) > 1
    /\ FirstCodeValue(From(content, NotAvailableIndex(content))) # ""
    /\ PathContains(fullPath, FirstCodeValue(From(content, NotAvailableIndex(content))))

RECURSIVE checkMissingInSchema(_, _, _, _, _), MissingInSchemaLoop(_, _, _, _, _, _)

\* the loop of checkMissingInSchema over the keys of documentation.Objects
MissingInSchemaLoop(h, parentPath, documentation, schema, keys, ord) ==
    IF keys = <<>> THEN <<>>
    ELSE LET name == Head(keys)
             dp == h.props[documentation].Objects[name]
             fullPath == Append(parentPath, name)
             schemas == h.props[schema].Objects
         IN (IF name = "id" THEN <<>>
             ELSE IF parentPath = <<>> /\ h.prop[dp].Block /\ HasNested(h, dp) THEN <<>>
             ELSE IF MentionsDeprecated(h.prop[dp].Content) THEN <<>>
             ELSE IF name \notin DOMAIN schemas
                  THEN IF NotAvailableException(h.prop[dp].Content, fullPath) THEN <<>>
                       ELSE <<NotInSchemaError(fullPath, h.prop[dp])>>
             ELSE IF h.prop[dp].Block THEN <<>>
             ELSE IF HasNested(h, dp) /\ h.prop[schemas[name]].Nested # 0
                  THEN checkMissingInSchema(h, fullPath, h.prop[dp].Nested,
                                            h.prop[schemas[name]].Nested, ord)
             ELSE <<>>)
            \o MissingInSchemaLoop(h, parentPath, documentation, schema, Tail(keys), ord)

\* S006.checkMissingInSchema
checkMissingInSchema(h, parentPath, documentation, schema, ord) ==
    IF documentation = 0 THEN <<>>
    ELSE MissingInSchemaLoop(h, parentPath, documentation, schema,
                             RangeOrder(h.props[documentation].Objects, ord), ord)

\* whether Run gets past its early returns
RunChecks(d) ==
    /\ d.DocumentExists
    /\ d.Type # "data"
    /\ d.SchemaProperties # 0 /\ d.DocumentArguments # 0

\* a Run that, asked to fix, adds a placeholder to the documented arguments
\* when it has something to report
RunWithAutofix(h, d, fix, ordA, ordB) ==
    LET errs == IF ~RunChecks(d) THEN <<>>
                ELSE checkMissingInDoc(h, <<>>, d.SchemaProperties, d.DocumentArguments, ordA)
                     \o checkMissingInSchema(h, <<>>, d.DocumentArguments, d.SchemaProperties,
                                             ordB)
    IN IF fix /\ errs # <<>>
       THEN [h |-> [h EXCEPT !.props[d.DocumentArguments].Names = Append(@, "fixed")],
             errs |-> errs]
       ELSE [h |-> h, errs |-> errs]

\* S006.Run(d, fix): the heap it leaves and the errors it returns
S006_Run(h, d, fix, ordA, ordB) ==
    IF ~RunChecks(d) THEN [h |-> h, errs |-> <<>>]
    ELSE [h |-> h,
          errs |-> checkMissingInDoc(h, <<>>, d.SchemaProperties, d.DocumentArguments, ordA)
                   \o checkMissingInSchema(h, <<>>, d.DocumentArguments, d.SchemaProperties,
                                           ordB)]

----------------------------------------------------------------------------
(* SpecValidate: S006.Run on bounded schema and documentation trees        *)

\* runs of the rule on one pair of trees
MaxRuns == 2

\* a tree is given as the sequence of its root entries, an entry as the
\* Property record and its nested level: kids.has tells whether Nested is
\* non-nil, kids.seq lists the nested Property records in insertion order
NoKids == [has |-> FALSE, seq |-> <<>>]
Kids(seq) == [has |-> TRUE, seq |-> seq]
Entry(rec, kids) == [rec |-> rec, kids |-> kids]

RECURSIVE AddLeaves(_, _, _)
\* AddProperty of a new Property for each record of recs
AddLeaves(h, ps, recs) ==
    IF recs = <<>> THEN h
    ELSE AddLeaves(Properties_AddProperty(AllocProp(h, Head(recs)), ps, Len(h.prop) + 1),
                   ps, Tail(recs))

RECURSIVE AddEntries(_, _, _)
\* the entries of a level: Nested = NewProperties() and its properties, then
\* AddProperty of the entry itself
AddEntries(h, ps, entries) ==
    IF entries = <<>> THEN h
    ELSE LET e  == Head(entries)
             h1 == IF e.kids.has THEN AddLeaves(AllocProps(h), Len(h.props) + 1, e.kids.seq)
                   ELSE h
             h2 == AllocProp(h1, [e.rec EXCEPT !.Nested = IF e.kids.has THEN Len(h.props) + 1
                                                          ELSE 0])
         IN AddEntries(Properties_AddProperty(h2, ps, LastProp(h2)), ps, Tail(entries))

\* NewProperties() filled with the entries; the root is the new Properties
BuildTree(h, entries) == AddEntries(AllocProps(h), Len(h.props) + 1, entries)

\* the Required / Optional / Computed combinations of a schema property
SchemaFlags ==
    {[Required |-> FALSE, Optional |-> FALSE, Computed |-> FALSE],
     [Required |-> TRUE,  Optional |-> FALSE, Computed |-> FALSE],
     [Required |-> FALSE, Optional |-> TRUE,  Computed |-> FALSE],
     [Required |-> FALSE, Optional |-> TRUE,  Computed |-> TRUE],
     [Required |-> FALSE, Optional |-> FALSE, Computed |-> TRUE],
     [Required |-> TRUE,  Optional |-> FALSE, Computed |-> TRUE]}

RequiredFlags == [Required |-> TRUE, Optional |-> FALSE, Computed |-> FALSE]
ComputedFlags == [Required |-> FALSE, Optional |-> FALSE, Computed |-> TRUE]

\* the Property populateAllSchemaProperties makes of a schema.Schema
SchemaProperty(name, f, deprecated, block) ==
    [ZeroProperty EXCEPT !.Name = name, !.Required = f.Required, !.Optional = f.Optional,
                         !.Computed = f.Computed, !.Deprecated = deprecated,
                         !.Block = block]

\* flag and deprecation variants of a schema property that is not a block
SchemaLeaves(name) ==
    {SchemaProperty(name, f, FALSE, FALSE) : f \in SchemaFlags}
        \cup {SchemaProperty(name, RequiredFlags, TRUE, FALSE)}

\* the schemas of a nested resource: empty, {type} or {id}
NestedSchemas ==
    {Kids(<<>>), Kids(<<SchemaProperty("id", RequiredFlags, FALSE, FALSE)>>)}
        \cup {Kids(<<l>>) : l \in SchemaLeaves("type")}

\* the schema trees: name absent or a leaf, identity absent, a leaf or a
\* block (Elem a resource: Block = true and Nested non-nil)
SchemaInputs ==
    {n \o i :
        n \in {<<>>} \cup {<<Entry(l, NoKids)>> :
                              l \in {SchemaProperty("name", f, d, FALSE) :
                                        f \in {RequiredFlags, ComputedFlags,
                                               [Required |-> FALSE, Optional |-> FALSE,
                                                Computed |-> FALSE]},
                                        d \in {FALSE}}
                                    \cup {SchemaProperty("name", RequiredFlags, TRUE, FALSE)}},
        i \in {<<>>, <<Entry(SchemaProperty("identity", RequiredFlags, FALSE, FALSE), NoKids)>>}
              \cup {<<Entry(SchemaProperty("identity", f, FALSE, TRUE), k)>> :
                       f \in {RequiredFlags, ComputedFlags}, k \in NestedSchemas}
              \cup {<<Entry(SchemaProperty("identity", RequiredFlags, TRUE, TRUE), k)>> :
                       k \in NestedSchemas}}

\* the line a documented field was extracted from, by what its text says
DocContent(name, class) ==
    <<W("*"), C(name), W("-"), W("(Optional)")>> \o
    (CASE class = "plain"      -> <<W("text.")>>
       [] class = "deprecated" -> <<W("Deprecated"), W("text.")>>
       [] class = "part"       -> <<W("Not"), W("available"), W("for"), C("ident"), W("text.")>>
       [] class = "other"      -> <<W("not"), W("available"), W("for"), C("Basic"), W("or"),
                                    C("identity"), W("text.")>>)

DocLine(name) == CASE name = "name" -> 2 [] name = "identity" -> 4 [] OTHER -> 6

\* the Property the section builder and the conversion make of a field line
DocProperty(name, class, block) ==
    [ZeroProperty EXCEPT !.Name = name, !.Optional = TRUE, !.Block = block,
                         !.Content = DocContent(name, class), !.Line = DocLine(name),
                         !.Position = "PosArgs"]

\* the nested levels of a documented identity: nil, empty, {type}, {id}, {kind}
NestedDocs ==
    {NoKids, Kids(<<>>), Kids(<<DocProperty("type", "plain", FALSE)>>),
     Kids(<<DocProperty("id", "plain", FALSE)>>)}
        \cup {Kids(<<DocProperty("kind", c, FALSE)>>) :
                 c \in {"plain", "deprecated", "part", "other"}}

\* the documentation trees
DocInputs ==
    {n \o i :
        n \in {<<>>} \cup {<<Entry(DocProperty("name", c, FALSE), NoKids)>> :
                              c \in {"plain", "deprecated", "other"}},
        i \in {<<>>} \cup {<<Entry(DocProperty("identity", c, b), k)>> :
                              c \in {"plain", "deprecated", "part"}, b \in BOOLEAN,
                              k \in NestedDocs}}

\* what Run tests before it looks at the trees; the combinations that make it
\* return early are tried on the empty documentation tree
RunInputs(docEntries) ==
    IF docEntries # <<>>
    THEN {[DocumentExists |-> TRUE, Type |-> "resource", nilSchema |-> FALSE, nilDoc |-> FALSE]}
    ELSE [DocumentExists : BOOLEAN, Type : {"resource", "data"}, nilSchema : BOOLEAN,
          nilDoc : BOOLEAN]

\* every level of the trees holds at most two names: these two orders give
\* every order in which a map of the trees can be enumerated
MapOrders == {<<"name", "identity", "type", "kind", "id">>,
              <<"id", "kind", "type", "identity", "name">>}

InitValidate ==
    /\ mode = "validate"
    /\ \E s \in SchemaInputs, d \in DocInputs :
        \E g \in RunInputs(d) :
            /\ heap = BuildTree(BuildTree(EmptyHeap, s), d)
            /\ node = [SchemaProperties |-> IF g.nilSchema THEN 0 ELSE 1,
                       DocumentArguments |-> IF g.nilDoc THEN 0
                                            ELSE Len(BuildTree(EmptyHeap, s).props) + 1,
                       DocumentExists |-> g.DocumentExists, Type |-> g.Type]
    /\ hist = [runs |-> 0, first |-> <<>>]
    /\ sec = [kind |-> "args", content |-> <<>>, parsedFields |-> 0]
    /\ out = [errs |-> <<>>]

\* errs := S006{}.Run(d, fix)
Run ==
    /\ mode = "validate"
    /\ hist.runs < MaxRuns
    /\ \E fix \in BOOLEAN, ordA \in MapOrders, ordB \in MapOrders :
        \E r \in {S006_Run(heap, node, fix, ordA, ordB)} :
            /\ heap' = r.h
            /\ out' = [errs |-> r.errs]
            /\ hist' = [runs |-> hist.runs + 1,
                        first |-> IF hist.runs = 0 THEN r.errs ELSE hist.first]
    /\ UNCHANGED <<mode, sec, node>>

NextValidate == Run

SpecValidate == InitValidate /\ [][NextValidate]_vars

----------------------------------------------------------------------------
(* Claims about the validator                                              *)

\* a run that got past the early returns has been made
Ran == mode = "validate" /\ hist.runs >= 1 /\ RunChecks(node)

ValidatorNames == {"name", "identity", "type", "kind", "id"}

\* the dotted paths of the trees (two levels)
TreePaths == {<<a>> : a \in ValidatorNames} \cup {<<a, b>> : a, b \in ValidatorNames}

ProperPrefixes(path) == {SubSeq(path, 1, k) : k \in 1..(Len(path) - 1)}

RECURSIVE Lookup(_, _)
\* the Property at the path below the level ps, 0 when there is none
Lookup(ps, path) ==
    IF ps = 0 \/ path = <<>> THEN 0
    ELSE IF path[1] \notin DOMAIN heap.props[ps].Objects THEN 0
    ELSE IF Len(path) = 1 THEN heap.props[ps].Objects[path[1]]
    ELSE Lookup(heap.prop[heap.props[ps].Objects[path[1]]].Nested, Tail(path))

SchemaAt(path) == Lookup(node.SchemaProperties, path)
DocAt(path) == Lookup(node.DocumentArguments, path)

\* the positions of the returned list holding a diagnostic of the kind for
\* the path
Reported(kind, path) ==
    {i \in 1..Len(out.errs) : out.errs[i].kind = kind /\ out.errs[i].path = path}

\* the schema property at p is one the schema-to-doc direction does not skip
NotSkippedA(p) ==
    /\ ~(~heap.prop[SchemaAt(p)].Optional /\ heap.prop[SchemaAt(p)].Computed)
    /\ ~heap.prop[SchemaAt(p)].Deprecated
    /\ p[Len(p)] # "id"

\* the schema-to-doc direction went from the schema property at a into its
\* nested level
DescendedA(a) ==
    /\ SchemaAt(a) # 0 /\ NotSkippedA(a) /\ HasNested(heap, SchemaAt(a))
    /\ DocAt(a) # 0 /\ HasNested(heap, DocAt(a))

\* the schema-to-doc direction reaches the schema property at p and checks it
CheckedA(p) ==
    /\ SchemaAt(p) # 0
    /\ NotSkippedA(p)
    /\ \A a \in ProperPrefixes(p) : DescendedA(a)

\* C5 as stated: a schema property is reported missing from documentation
\* exactly when it is Required or Optional, not deprecated, not named id, its
\* ancestors are matched to doc entries with nested content and its doc level
\* has no entry of its name; the diagnostic has line 0.
C5_MissingWhenRequiredOrOptional ==
    Ran =>
        \A p \in TreePaths :
            SchemaAt(p) # 0 =>
                /\ (Reported("is missing from documentation", p) # {}) <=>
                      /\ heap.prop[SchemaAt(p)].Required \/ heap.prop[SchemaAt(p)].Optional
                      /\ ~heap.prop[SchemaAt(p)].Deprecated
                      /\ p[Len(p)] # "id"
                      /\ \A a \in ProperPrefixes(p) : DocAt(a) # 0 /\ HasNested(heap, DocAt(a))
                      /\ DocAt(p) = 0
                /\ \A i \in Reported("is missing from documentation", p) : out.errs[i].line = 0

\* C5 (amended): a schema property is reported missing from documentation,
\* once, with its dotted path and line 0, exactly when it is not computed-only
\* (Computed without Optional), not deprecated, not named id, the direction
\* descended through all its ancestors and its doc level has no entry of its
\* name.
C5_MissingUnlessComputedOnly ==
    Ran =>
        \A p \in TreePaths :
            SchemaAt(p) # 0 =>
                /\ Cardinality(Reported("is missing from documentation", p)) =
                      IF CheckedA(p) /\ DocAt(p) = 0 THEN 1 ELSE 0
                /\ \A i \in Reported("is missing from documentation", p) : out.errs[i].line = 0

\* a nested schema property with none of the three flags is reported
C5_Witness ==
    /\ Ran
    /\ \E p \in TreePaths :
        /\ Len(p) = 2 /\ SchemaAt(p) # 0
        /\ ~heap.prop[SchemaAt(p)].Required /\ ~heap.prop[SchemaAt(p)].Optional
        /\ ~heap.prop[SchemaAt(p)].Computed
        /\ Reported("is missing from documentation", p) # {}

\* schema {name, identity{type}}, name and identity Required; doc {name,
\* identity}, identity a plain field without nested content
IdentityScenario ==
    LET S == heap.props[node.SchemaProperties].Objects
        D == heap.props[node.DocumentArguments].Objects
    IN /\ DOMAIN S = {"name", "identity"} /\ DOMAIN D = {"name", "identity"}
       /\ \A n \in DOMAIN S : heap.prop[S[n]].Required /\ ~heap.prop[S[n]].Computed
                              /\ ~heap.prop[S[n]].Deprecated
       /\ HasNested(heap, S["identity"])
       /\ DOMAIN heap.props[heap.prop[S["identity"]].Nested].Objects = {"type"}
       /\ \A n \in DOMAIN D : /\ ~heap.prop[D[n]].Block /\ ~HasNested(heap, D[n])
                              /\ ~MentionsDeprecated(heap.prop[D[n]].Content)

VisitedB(p) ==
    /\ DocAt(p) # 0
    /\ \A a \in ProperPrefixes(p) :
          /\ a[Len(a)] # "id"
          /\ ~MentionsDeprecated(heap.prop[DocAt(a)].Content)
          /\ SchemaAt(a) # 0 /\ heap.prop[SchemaAt(a)].Nested # 0
          /\ ~heap.prop[DocAt(a)].Block /\ HasNested(heap, DocAt(a))

\* the content has the phrase "not available for" and the backtick-quoted
\* token that follows it lies within the path
FollowedByPathToken(content, p) ==
    /\ NotAvailableIndex(content) # 0
    /\ \E j \in CodePositions(content) :
          /\ j > NotAvailableIndex(content)
          /\ \A m \in CodePositions(content) : m > NotAvailableIndex(content) => j <= m
          /\ PathContains(p, content[j].s)

C8_UnresolvedReferenceNotReported ==
    Ran =>
        \A p \in TreePaths :
            (/\ CheckedA(p) /\ HasNested(heap, SchemaAt(p))
             /\ DocAt(p) # 0 /\ heap.prop[DocAt(p)].Block /\ ~HasNested(heap, DocAt(p)))
            => \A i \in 1..Len(out.errs) :
                  out.errs[i].kind # "block is missing from documentation"

\* C9: a second run on the same trees returns the sequence of diagnostics
\* the first run returned.
C9_SameSequenceOnEveryRun ==
    (mode = "validate" /\ hist.runs >= 2) => out.errs = hist.first

\* C10: a run of the rule changes no object of the two trees and neither
\* root.
C10_RunLeavesTreesUnchanged ==
    [][mode = "validate" => (heap' = heap /\ node' = node)]_vars

\* a run after which diagnostics of both directions stand
C10_Witness ==
    /\ Ran
    /\ \E i, j \in 1..Len(out.errs) :
          /\ out.errs[i].kind = "is missing from documentation"
          /\ out.errs[j].kind = "does not exist in schema"


\* ---------------------------------------------------------------------------
\* Field extraction from one line: ExtractFieldFromLine on the lines made of a
\* start and a description.
\* ---------------------------------------------------------------------------

StartField == <<W("*"), C("sku"), W("-"), W("(Optional)")>>
StartRequired == <<W("*"), C("sku"), W("-"), W("(Required)")>>
StartTwoTokens == <<W("*"), C("a"), W("and"), C("b"), W("-"), W("(Optional)")>>
StartNoDash == <<W("*"), C("sku")>>
StartBare == <<W("*")>>
StartToken == <<C("sku")>>

\* the ParsedField of the structured parser; isNil tells a nil result
ZeroParsedField ==
    [isNil |-> TRUE, Name |-> "", Line |-> 0, Position |-> "PosDefault",
     Required |-> "RequiredDefault", ForceNew |-> FALSE, Content |-> <<>>,
     PossibleValues |-> <<>>, BlockType |-> ""]

\* the possible values of parseFieldLine: the values of its
\* extractPossibleValues, which are nil when a second separator follows, and
\* the guessed values when there are none
StructuredValues(r, guesses) ==
    IF r.errs = <<>> /\ r.enums # <<>> THEN r.enums ELSE guesses

\* the Required switch of parseFieldLine
RequiredType(f) ==
    IF f.Required THEN "RequiredRequired"
    ELSE IF f.Optional THEN "RequiredOptional" ELSE "RequiredDefault"

\* StructuredParser.parseFieldLine
parseFieldLine(line, lineNum, pos) ==
    IF FieldRegEnd(line) = 0 THEN ZeroParsedField
    ELSE [isNil |-> FALSE, Name |-> FieldRegName(line), Line |-> lineNum, Position |-> pos,
          Required |-> RequiredType(WithRequirement(ZeroProperty, line, TRUE)),
          ForceNew |-> isForceNew(line), Content |-> line,
          PossibleValues |-> StructuredValues(extractPossibleValues(line),
                                              GuessTokens(Description(line, FieldRegEnd(line)))),
          BlockType |-> IF guessBlockProperty(line)
                        THEN extractBlockTypeName(line, FieldRegName(line)) ELSE ""]

NotParsed == [done |-> FALSE, panic |-> FALSE, field |-> ZeroParsedField]

LineStarts == {StartField, StartRequired, StartTwoTokens, StartNoDash, StartBare, StartToken}

Sentence(words) == words \o <<W(".")>>

EnumThree == Sentence(<<W("Possible"), W("values"), W("are"), C("7.1"), W(","), C("7.2"),
                        W("and"), C("8.0")>>)
EnumTwo == Sentence(<<W("Possible"), W("values"), W("are"), C("a"), W("and"), C("b")>>)
EnumOne == Sentence(<<W("Possible"), W("values"), W("are"), C("a")>>)
AllowedOne == Sentence(<<W("Allowed"), W("values"), W("are"), C("c")>>)
DefaultsTo == Sentence(<<W("Defaults"), W("to"), C("c")>>)
ForcesNew == Sentence(<<W("Changing"), W("this"), W("forces"), W("a"), W("new"),
                        W("resource"), W("to"), W("be"), W("created")>>)
ForcesNewWhen == Sentence(<<W("Changing"), W("this"), W("forces"), W("a"), W("new"),
                            W("resource"), W("to"), W("be"), W("created"), W("when"),
                            W("X"), W("is"), W("set")>>)
ForcesReplacement == Sentence(<<W("Changing"), W("this"), W("forces"), W("a"),
                                W("replacement")>>)

LineDescriptions ==
    { Sentence(<<W("text")>>),
      EnumThree,
      EnumTwo \o DefaultsTo,
      Sentence(<<W("Possible"), W("values"), W("are"), C("a"), W(","), C("b"), W("and"), C("a")>>),
      <<W("Possible"), W("values"), W("are"), C("a"), W("and"), C("b")>>,
      EnumTwo \o AllowedOne,
      AllowedOne \o EnumOne,
      Sentence(<<W("Must"), W("be"), W("one"), W("of"), C("a"), W("or"), C("b")>>),
      Sentence(<<W("text")>>) \o ForcesNew,
      ForcesNewWhen,
      ForcesReplacement,
      ForcesNew \o ForcesNewWhen,
      EnumOne \o ForcesNew,
      Sentence(<<W("An"), C("endpoint"), W("block"), W("as"), W("defined"), W("below")>>),
      <<W(NarrowLower), C("b")>> \o EnumOne,
      <<W(WideLower), W("Possible"), W("values")>> }

ExtractPool == {st \o d : st \in LineStarts, d \in LineDescriptions}

InitExtract ==
    /\ mode = "extract"
    /\ heap = EmptyHeap
    /\ \E l \in ExtractPool : \E pos \in {"PosArgs", "PosAttr"} : \E n \in 0..1 :
          hist = [line |-> l, position |-> pos, lineNumber |-> n]
    /\ sec = [content |-> <<>>, parsedFields |-> 0]
    /\ node = [SchemaProperties |-> 0, DocumentArguments |-> 0]
    /\ out = [done |-> FALSE, panic |-> FALSE, field |-> ZeroProperty,
              parsed |-> NotParsed]

\* field := ExtractFieldFromLine(line, position, lineNumber)
Extract ==
    /\ mode = "extract"
    /\ ~out.done
    /\ out' = IF ExtractPanics(hist.line)
              THEN [out EXCEPT !.done = TRUE, !.panic = TRUE]
              ELSE [out EXCEPT !.done = TRUE,
                               !.field = ExtractFieldFromLine(hist.line, hist.position,
                                                              hist.lineNumber)]
    /\ UNCHANGED <<heap, mode, hist, sec, node>>

\* field := p.parseFieldLine(line, lineNum, pos) of the structured parser
ParseFieldLine ==
    /\ mode = "extract"
    /\ ~out.parsed.done
    /\ out' = [out EXCEPT !.parsed =
                  IF ExtractPanics(hist.line)
                  THEN [NotParsed EXCEPT !.done = TRUE, !.panic = TRUE]
                  ELSE [NotParsed EXCEPT !.done = TRUE,
                                         !.field = parseFieldLine(hist.line, hist.lineNumber,
                                                                  hist.position)]]
    /\ UNCHANGED <<heap, mode, hist, sec, node>>

NextExtract == Extract \/ ParseFieldLine

SpecExtract == InitExtract /\ [][NextExtract]_vars

Extracted == mode = "extract" /\ out.done

Returned == Extracted /\ ~out.panic

\* the primary field pattern matches the line
PrimaryMatches(line) ==
    /\ Len(line) >= 4
    /\ line[1] \in {W("*"), W("-")}
    /\ line[2].k = "c"
    /\ \E j \in 2..(Len(line) - 2) : line[j].k = "c" /\ line[j + 1] = W("-")

HasToken(line) == \E i \in 1..Len(line) : line[i].k = "c"

\* C13: ExtractFieldFromLine returns a Property for every line (it never
\* fails); the Name is empty exactly when the primary pattern binds no name
\* and the line has no backtick-quoted token, and then the parse errors hold
\* "no field name found".
C13_ExtractionIsTotal ==
    Extracted =>
        /\ ~out.panic
        /\ out.field.Name = "" <=> (~PrimaryMatches(hist.line) /\ ~HasToken(hist.line))
        /\ out.field.Name = "" => "no field name found" \in Range(out.field.ParseErrors)

\* the pieces where an enum trigger phrase starts
TriggerPieces(line) ==
    {i \in 1..Len(line) : \E n \in 1..Len(EnumSeparators) : SeparatorAt(line, i, EnumSeparators[n])}

\* the trigger phrases of the line: a phrase that lies inside another one
\* ("be one of" inside "must be one of") is not counted
TriggerPhrases(line) ==
    {i \in TriggerPieces(line) :
        ~(i - 1 \in TriggerPieces(line) /\ SeparatorAt(line, i - 1, EnumSeparators[2]))}

AmbiguityError == "multiple possible value sections detected, skipping enum extraction"

\* C14: when a second enum trigger phrase occurs later in the line than the
\* first, the authoritative possible values are empty and the ambiguity is
\* recorded as a parse error.
C14_SecondTriggerDiscardsValues ==
    (Returned /\ PrimaryMatches(hist.line) /\ Cardinality(TriggerPhrases(hist.line)) >= 2) =>
        /\ out.field.PossibleValues = <<>>
        /\ AmbiguityError \in Range(out.field.ParseErrors)

RECURSIVE FirstOccurrences(_, _)
FirstOccurrences(values, seen) ==
    IF values = <<>> THEN <<>>
    ELSE IF Head(values) \in seen THEN FirstOccurrences(Tail(values), seen)
    ELSE <<Head(values)>> \o FirstOccurrences(Tail(values), seen \cup {Head(values)})

\* the backtick-quoted tokens between the trigger phrase at piece t and the
\* first period that lies outside every token, in line order
TokensOfSection(line, t) ==
    LET stops == {q \in (t + 1)..Len(line) : line[q].k = "w" /\ line[q].s \in HasPeriod}
        stop  == IF stops = {} THEN Len(line) + 1 ELSE Min(stops)
        sect  == SubSeq(line, t, stop - 1)
    IN [i \in 1..Len(Codes(sect)) |-> Codes(sect)[i].s]

\* C15: with one trigger phrase the authoritative possible values are the
\* tokens between the phrase and the first period outside every token, in
\* line order (each value once); tokens after that period are not collected.
C15_ValuesBetweenTriggerAndPeriod ==
    (Returned /\ PrimaryMatches(hist.line) /\ Cardinality(TriggerPhrases(hist.line)) = 1) =>
        \A t \in TriggerPhrases(hist.line) :
            out.field.PossibleValues = FirstOccurrences(TokensOfSection(hist.line, t), {})

\* the line has "Changing ... force(s) a" and, when words is not empty, the
\* words of the sequence after it in that order
ChangingForces(line, words) ==
    \E i \in 1..Len(line) : \E j \in (i + 1)..(Len(line) - 2) :
        /\ line[i] = W("Changing")
        /\ line[j] \in {W("forces"), W("force")} /\ line[j + 1] = W("a")
        /\ SepBefore(line, j + 2) = 1
        /\ \E f \in [1..Len(words) -> (j + 2)..Len(line)] :
              /\ \A k \in 1..Len(words) : line[f[k]] = W(words[k])
              /\ \A k \in 1..(Len(words) - 1) : f[k] < f[k + 1]

\* the conditional form: "force(s) a ... created when ..." with no period
\* between "a" and "created"
ConditionalForm(line) ==
    \E i \in 1..Len(line) : \E j \in (i + 1)..Len(line) : \E k \in (j + 3)..(Len(line) - 2) :
        /\ line[i] = W("Changing")
        /\ line[j] \in {W("forces"), W("force")} /\ line[j + 1] = W("a")
        /\ line[k] = W("created") /\ line[k + 1] = W("when")
        /\ SepBefore(line, k + 2) = 1
        /\ \A m \in (j + 2)..(k - 1) : ~(line[m].s \in HasPeriod)

\* C16 as stated: ForceNew is true exactly when the line has a sentence
\* "Changing ... forces ... resource ... created" that is not of the
\* conditional form "forces a ... created when ...".
C16_ForceNewWhenResourceCreated ==
    Returned =>
        (out.field.ForceNew <=>
            (ChangingForces(hist.line, <<"resource", "created">>) /\ ~ConditionalForm(hist.line)))

\* C16: ForceNew is true exactly when the line has "Changing ... force(s) a"
\* followed by more text and no part of it has the conditional form
\* "force(s) a ... created when ..."; the words resource and created are
\* not needed.
C16_ForceNewWhenForcesA ==
    Returned =>
        (out.field.ForceNew <=>
            (ChangingForces(hist.line, <<>>) /\ ~ConditionalForm(hist.line)))

\* a line without the word resource is extracted with ForceNew true
C16_Witness ==
    /\ Returned
    /\ out.field.ForceNew
    /\ ~HasPiece(hist.line, {"resource"})
    /\ HasPiece(hist.line, {"replacement"})

\* C17: for every line the primary field pattern matches, the Name is not
\* empty and is the first backtick-quoted token of the line.
C17_NameIsFirstToken ==
    (Returned /\ PrimaryMatches(hist.line)) =>
        /\ out.field.Name # ""
        /\ out.field.Name = hist.line[Min({i \in 1..Len(hist.line) : hist.line[i].k = "c"})].s


\* ---------------------------------------------------------------------------
\* The order of a block's definition and of the fields that reference it: two
\* contents made of the same lines are built, converted and linked.
\* ---------------------------------------------------------------------------

MaxRefs == 2
MaxBody == 2

LineKind == <<W("*"), C("kind"), W("-"), W("(Optional)"), W("text.")>>
LineHeadRule == <<W("A"), C("rule"), W("block"), W("supports"), W("the"), W("following:")>>

\* the fields referencing the endpoint block and the lines of its definition
ReferenceLines == {LineSource, LineEndpoint}
BodyLines == {LineName, LineKind}

\* the part of the content holding the references: fields of the root, or
\* fields of the block rule
ReferencePart(refs, inRule) == IF inRule THEN <<LineHeadRule>> \o refs ELSE refs

DefinitionPart(body) == <<LineHead>> \o body

\* the two parts in either order, with a separator line between them
DefinitionFirst(refs, body, inRule) ==
    DefinitionPart(body) \o <<LineSeparator>> \o ReferencePart(refs, inRule)

ReferencesFirst(refs, body, inRule) ==
    ReferencePart(refs, inRule) \o <<LineSeparator>> \o DefinitionPart(body)

ShapeDepth == 4

RECURSIVE Shape(_, _, _)
\* a tree as a value: every entry of Objects with its attributes and the
\* shape of its nested tree (a nil tree and an empty tree have the same shape)
Shape(h, ps, fuel) ==
    IF ps = 0 \/ fuel = 0 THEN <<>>
    ELSE [n \in DOMAIN h.props[ps].Objects |->
            LET p == h.prop[h.props[ps].Objects[n]]
            IN [Name |-> p.Name, Required |-> p.Required, Optional |-> p.Optional,
                Block |-> p.Block, BlockTypeName |-> p.BlockTypeName,
                Nested |-> Shape(h, p.Nested, fuel - 1)]]

NotBuilt == [done |-> FALSE, ok |-> TRUE, shape |-> <<>>]

InitOrder ==
    /\ mode = "order"
    /\ heap = EmptyHeap
    /\ \E k \in {"args", "attrs"} : \E refs \in SeqsUpTo(ReferenceLines, MaxRefs) :
       \E body \in SeqsUpTo(BodyLines, MaxBody) : \E inRule \in BOOLEAN :
          /\ Len(refs) > 0
          /\ hist = [kind |-> k, refs |-> refs, body |-> body, inRule |-> inRule]
    /\ sec = [content |-> <<>>, parsedFields |-> 0]
    /\ node = [SchemaProperties |-> 0, DocumentArguments |-> 0]
    /\ out = [defFirst |-> NotBuilt, refFirst |-> NotBuilt]

\* ParseFields on the content, the conversion to the data tree and
\* BuildBlockStructure; the final tree is kept as a value
FinalTree(content, which) ==
    \E b \in {BuildFields(hist.kind, EmptyHeap, content)} :
    \E c \in {convertParsedPropertiesToProperties(b.h, b.root)} :
    \E ord \in Perms(NamesOf(c.h)) :
    \E l \in {BuildBlockStructure(c.h, c.id, ord)} :
        out' = [out EXCEPT ![which] = [done |-> TRUE, ok |-> l.ok,
                                  shape |-> Shape(l.h, c.id, ShapeDepth)]]

BuildDefinitionFirst ==
    /\ mode = "order"
    /\ ~out.defFirst.done
    /\ FinalTree(DefinitionFirst(hist.refs, hist.body, hist.inRule), "defFirst")
    /\ UNCHANGED <<heap, mode, hist, sec, node>>

BuildReferencesFirst ==
    /\ mode = "order"
    /\ ~out.refFirst.done
    /\ FinalTree(ReferencesFirst(hist.refs, hist.body, hist.inRule), "refFirst")
    /\ UNCHANGED <<heap, mode, hist, sec, node>>

NextOrder == BuildDefinitionFirst \/ BuildReferencesFirst

SpecOrder == InitOrder /\ [][NextOrder]_vars

\* C11: two contents that differ only in whether the block's definition
\* comes before or after the fields that reference it give, after the build
\* and the linking, the same final tree: the same entries with the same
\* attributes and the same nested content under every referencing field.
C11_OrderOfDefinitionDoesNotMatter ==
    (mode = "order" /\ out.defFirst.done /\ out.refFirst.done) =>
        out.defFirst.shape = out.refFirst.shape


\* ---------------------------------------------------------------------------
\* ParseFields line by line: one step per pass through the body of its loop.
\* hist holds the loop's locals (i is the 1-based index of the next line, so
\* lineNum = i - 1), and for every tree the lines its names came from (intro).
\* ---------------------------------------------------------------------------

MaxLoopLines == 3

LineHeadOf == <<W("A"), C("rule"), W("block"), W("of"), C("policy"), W("supports"),
                W("the"), W("following:")>>
LineHeadUnnamed == <<W("The"), W("block"), C("rule"), W("block"), W("supports"),
                     W("the"), W("following:")>>
LineNoName == <<W("*"), W("text.")>>
LineText == <<W("text.")>>
LineBlank == <<>>
LineComment == <<W("<!--"), W("text"), W("-->")>>
LineWarning == <<W("~>"), C("name"), W("text.")>>

LoopPool == {LineName, LineKind, LineEndpoint, LineHead, LineHeadOf, LineHeadUnnamed,
             LineSeparator, LineNote, LineNoName, LineText, LineBlank, LineComment,
             LineWarning}

\* the branch of the loop body a line takes
LineClass(kind, line) ==
    IF IsSkipped(kind, line) THEN "skip"
    ELSE IF IsBlockHead(line) THEN "head"
    ELSE IF line = <<W("---")>> THEN "separator"
    ELSE IF line[1].k = "w" /\ line[1].s \in StarDashStart THEN "field"
    ELSE "other"

InitLoop ==
    /\ mode = "loop"
    /\ heap = EmptyHeap
    /\ \E k \in {"args", "attrs"} : \E c \in SeqsUpTo(LoopPool, MaxLoopLines) :
          sec = [kind |-> k, content |-> c, parsedFields |-> 0]
    /\ hist = [i |-> 0, root |-> 0, cur |-> 0, inBlock |-> FALSE, done |-> FALSE,
               curLine |-> 0, intro |-> <<>>]
    /\ node = [SchemaProperties |-> 0, DocumentArguments |-> 0]
    /\ out = [ret |-> 0]

\* the lines the names of every tree came from, after a step that took the
\* heap from h to h2: ln is the line of the names the step added
IntroAfter(h, h2, intro, ln) ==
    [ps \in 1..Len(h2.props) |->
        IF ps <= Len(h.props)
        THEN intro[ps] \o [k \in 1..(Len(h2.props[ps].Names) - Len(h.props[ps].Names)) |-> ln]
        ELSE [k \in 1..Len(h2.props[ps].Names) |-> ln]]

\* the entry of ParseFields: no cached tree, a new root, no block open
BeginLoop ==
    /\ mode = "loop"
    /\ hist.i = 0
    /\ sec.parsedFields = 0
    /\ \E st \in {StartState(AllocProps(heap))} :
          /\ heap' = st.h
          /\ hist' = [hist EXCEPT !.i = 1, !.root = st.root, !.cur = st.cur,
                                   !.inBlock = st.inBlock, !.intro = <<<<>>>>]
    /\ UNCHANGED <<mode, sec, node, out>>

\* one pass through the loop body, for a line of the class class
LoopStep(class) ==
    /\ mode = "loop"
    /\ hist.i >= 1 /\ hist.i <= Len(sec.content) /\ ~hist.done
    /\ LineClass(sec.kind, sec.content[hist.i]) = class
    /\ \E st \in {ParseLine(sec.kind,
                            [h |-> heap, root |-> hist.root, cur |-> hist.cur,
                             inBlock |-> hist.inBlock],
                            sec.content[hist.i], hist.i - 1)} :
          /\ heap' = st.h
          /\ hist' = [hist EXCEPT
                         !.i = @ + 1, !.cur = st.cur, !.inBlock = st.inBlock,
                         !.curLine = IF st.cur # hist.cur /\ st.cur # 0 THEN hist.i ELSE @,
                         !.intro = IntroAfter(heap, st.h, @,
                                              IF class = "field" THEN hist.i ELSE hist.curLine)]
    /\ UNCHANGED <<mode, sec, node, out>>

SkippedLine == LoopStep("skip")
BlockHeadLine == LoopStep("head")
SeparatorLine == LoopStep("separator")
FieldLine == LoopStep("field")
OtherLine == LoopStep("other")

\* after the loop: the open block is committed, the tree cached and returned
FinishLoop ==
    /\ mode = "loop"
    /\ hist.i = Len(sec.content) + 1 /\ ~hist.done
    /\ \E r \in {EndState([h |-> heap, root |-> hist.root, cur |-> hist.cur,
                           inBlock |-> hist.inBlock])} :
          /\ heap' = r.h
          /\ sec' = [sec EXCEPT !.parsedFields = r.root]
          /\ out' = [ret |-> r.root]
          /\ hist' = [hist EXCEPT !.done = TRUE,
                                   !.intro = IntroAfter(heap, r.h, @, hist.curLine)]
    /\ UNCHANGED <<mode, node>>

NextLoop == BeginLoop \/ SkippedLine \/ BlockHeadLine \/ SeparatorLine \/ FieldLine
            \/ OtherLine \/ FinishLoop

SpecLoop == InitLoop /\ [][NextLoop]_vars

LoopReturned == mode = "loop" /\ hist.done

\* the names a line can introduce: its backtick-quoted tokens, or the text
\* of several of them taken together
IntroducedBy(line) == {line[i].s : i \in CodePositions(line)} \cup {SpannedName}

\* every tree reachable from the returned root: the root and the nested
\* tree of every entry
TreesOfReturn ==
    {out.ret} \cup {heap.prop[p].Nested : p \in {q \in 1..Len(heap.prop) : heap.prop[q].Nested # 0}}

\* C12: in every tree ParseFields returns (the root and every nested tree)
\* the name list and the entry map hold the same set of names, and the name
\* list is in the order of the lines that introduced the entries.
C12_NamesMatchObjectsInLineOrder ==
    LoopReturned =>
        \A ps \in TreesOfReturn :
            /\ Range(heap.props[ps].Names) = DOMAIN heap.props[ps].Objects
            /\ Len(hist.intro[ps]) = Len(heap.props[ps].Names)
            /\ \A k \in 1..Len(heap.props[ps].Names) :
                  /\ hist.intro[ps][k] \in 1..Len(sec.content)
                  /\ heap.props[ps].Names[k] \in IntroducedBy(sec.content[hist.intro[ps][k]])
                  /\ \A m \in 1..(k - 1) : hist.intro[ps][m] <= hist.intro[ps][k]

\* a returned root with two names from two lines, the second a block whose
\* nested tree holds two names
C12_Witness ==
    /\ LoopReturned
    /\ Len(heap.props[out.ret].Names) = 2
    /\ heap.props[out.ret].Names[1] # heap.props[out.ret].Names[2]
    /\ \E p \in 1..Len(heap.prop) :
          /\ heap.prop[p].Nested # 0
          /\ heap.props[out.ret].Objects[heap.props[out.ret].Names[2]] = p
          /\ Len(heap.props[heap.prop[p].Nested].Names) = 1

\* C18: every Property ParseFields builds carries the 1-based number of the
\* line it came from; Line is 0 only for a Property with no source line.
C18_LineIsOneBasedSourceLine ==
    mode = "loop" =>
        \A p \in 1..Len(heap.prop) :
            /\ heap.prop[p].Line \in 1..Len(sec.content)
            /\ sec.content[heap.prop[p].Line] = heap.prop[p].Content

\* the step reads a block-head line from which a name is extracted
HeadStep ==
    /\ mode = "loop" /\ hist.i >= 1 /\ hist'.i = hist.i + 1
    /\ LineClass(sec.kind, sec.content[hist.i]) = "head"
    /\ ExtractBlockNames(sec.content[hist.i]) # <<>>

\* the relationship target of a head line: the first token after its first
\* " of ", else after its first " within ", "" when there is none
TargetOf(line) ==
    LET ofs == {i \in 2..(Len(line) - 1) : line[i] = W("of")}
        withins == {i \in 2..(Len(line) - 1) : line[i] = W("within")}
        from == IF ofs # {} THEN Min(ofs) ELSE IF withins # {} THEN Min(withins) ELSE 0
        toks == {i \in CodePositions(line) : i > from}
    IN IF from = 0 \/ toks = {} THEN "" ELSE line[Min(toks)].s

\* the step leaves the open block open: it reads a line that is neither a
\* block head nor a separator
InsideStep ==
    /\ mode = "loop" /\ hist.i >= 1 /\ hist'.i = hist.i + 1
    /\ LineClass(sec.kind, sec.content[hist.i]) \in {"skip", "field", "other"}

\* C19: a block-head line met while a block is open adds the open block to
\* the root before the new block becomes current; the new block is keyed by
\* the first name extracted from the line, is a block with an empty nested
\* tree, has the path <target>.<name> when the line names a relationship
\* target, and stays the current block, receiving every field line, until
\* the next block head, separator or end of content.
C19_BlockHeadOpensBlock ==
    [][/\ HeadStep =>
            /\ (hist.inBlock /\ hist.cur # 0) =>
                  /\ heap'.props[hist.root].Names =
                        Append(heap.props[hist.root].Names, heap.prop[hist.cur].Name)
                  /\ heap'.props[hist.root].Objects[heap.prop[hist.cur].Name] = hist.cur
                  /\ hist'.cur # hist.cur
            /\ hist'.inBlock /\ hist'.cur > Len(heap.prop)
            /\ heap'.prop[hist'.cur].Name = ExtractBlockNames(sec.content[hist.i])[1]
            /\ heap'.prop[hist'.cur].Block
            /\ heap'.prop[hist'.cur].Nested > Len(heap.props)
            /\ heap'.props[heap'.prop[hist'.cur].Nested] = NewProperties
            /\ \A n \in DOMAIN heap'.props[hist.root].Objects :
                  heap'.props[hist.root].Objects[n] # hist'.cur
            /\ TargetOf(sec.content[hist.i]) # "" =>
                  heap'.prop[hist'.cur].Path =
                      <<TargetOf(sec.content[hist.i]), heap'.prop[hist'.cur].Name>>
       /\ InsideStep =>
            /\ hist'.cur = hist.cur /\ hist'.inBlock = hist.inBlock
            /\ (/\ hist.inBlock /\ hist.cur # 0
                /\ LineClass(sec.kind, sec.content[hist.i]) = "field"
                /\ heap' # heap) =>
                  /\ Len(heap'.props[heap.prop[hist.cur].Nested].Names) =
                         Len(heap.props[heap.prop[hist.cur].Nested].Names) + 1
                  /\ heap'.props[hist.root] = heap.props[hist.root]]_vars

\* a block with a path is current and has received a field line while the
\* block that was open before it sits in the root
C19_Witness ==
    /\ mode = "loop" /\ hist.inBlock /\ hist.cur # 0
    /\ heap.prop[hist.cur].Path = <<"policy", "rule">>
    /\ heap.props[heap.prop[hist.cur].Nested].Names = <<"name">>
    /\ heap.props[hist.root].Names = <<"endpoint">>

\* the step reads a field-candidate line
FieldStep ==
    /\ mode = "loop" /\ hist.i >= 1 /\ hist'.i = hist.i + 1
    /\ LineClass(sec.kind, sec.content[hist.i]) = "field"

\* the name extracted from the line the step reads
StepName == ExtractFieldFromLine(sec.content[hist.i], "PosArgs", 0).Name

\* the tree the step's field belongs to: the open block's nested tree, else
\* the root
StepTarget == IF hist.inBlock /\ hist.cur # 0 THEN heap.prop[hist.cur].Nested ELSE hist.root

\* C20: a field-candidate line is inserted into the current block's nested
\* tree when a block is open and into the root otherwise; a line whose
\* extraction gives an empty name inserts nothing, and the loop goes on to
\* the next line.
C20_FieldGoesToOpenBlockOrRoot ==
    [][FieldStep =>
          /\ ~hist'.done /\ hist'.cur = hist.cur /\ hist'.inBlock = hist.inBlock
          /\ StepName = "" => heap' = heap
          /\ StepName # "" =>
                /\ heap'.props[StepTarget].Names = Append(heap.props[StepTarget].Names, StepName)
                /\ heap'.props[StepTarget].Objects[StepName] > Len(heap.prop)
                /\ heap'.prop[heap'.props[StepTarget].Objects[StepName]].Name = StepName
                /\ \A ps \in 1..Len(heap.props) :
                      ps # StepTarget => heap'.props[ps] = heap.props[ps]]_vars

\* a line without a name was read inside an open block, and the field line
\* after it was inserted into that block
C20_Witness ==
    /\ LoopReturned
    /\ Len(sec.content) = 3
    /\ sec.content[2] = LineNoName
    /\ heap.props[out.ret].Names = <<"endpoint">>
    /\ heap.props[heap.prop[heap.props[out.ret].Objects["endpoint"]].Nested].Names = <<"name">>


\* the step reads a line consisting of "---"
SeparatorStep ==
    /\ mode = "loop" /\ hist.i >= 1 /\ hist'.i = hist.i + 1
    /\ sec.content[hist.i] = <<W("---")>>

\* C21: a line "---" read while a block is open adds that block to the root
\* and leaves no block open (so later field lines go to the root); read
\* while no block is open it changes neither the tree nor the state.
C21_SeparatorCommitsAndCloses ==
    [][SeparatorStep =>
          /\ (hist.inBlock /\ hist.cur # 0) =>
                /\ heap'.props[hist.root].Names =
                      Append(heap.props[hist.root].Names, heap.prop[hist.cur].Name)
                /\ heap'.props[hist.root].Objects[heap.prop[hist.cur].Name] = hist.cur
                /\ hist'.cur = 0 /\ ~hist'.inBlock
          /\ ~(hist.inBlock /\ hist.cur # 0) =>
                /\ heap' = heap
                /\ hist'.cur = hist.cur /\ hist'.inBlock = hist.inBlock]_vars

\* a block closed by a separator sits in the root, followed by the field of
\* the line after the separator
C21_Witness ==
    /\ LoopReturned
    /\ sec.content = <<LineHead, LineSeparator, LineName>>
    /\ heap.props[out.ret].Names = <<"endpoint", "name">>

\* the lines of the content that open a block: block heads with a name
OpeningLines ==
    {i \in 1..Len(sec.content) :
        /\ LineClass(sec.kind, sec.content[i]) = "head"
        /\ ExtractBlockNames(sec.content[i]) # <<>>}

\* C22: every block opened by a block-head line is in the root of the result
\* and was committed to it exactly once, whether a block head, a separator
\* or the end of the content closed it, also when a later block-head line
\* yields no names.
C22_EveryBlockCommittedOnce ==
    LoopReturned =>
        \A i \in OpeningLines :
            Cardinality({k \in 1..Len(hist.intro[out.ret]) : hist.intro[out.ret][k] = i}) = 1

\* the lines the claim calls skippable or plain
SkippableOrPlain(line) ==
    \/ line = <<>>
    \/ line[1] = W("<!--")
    \/ line[1] \in {W("->"), W("~>")}
    \/ /\ ~IsBlockHead(line) /\ line # <<W("---")>>
       /\ ~(line[1].k = "w" /\ line[1].s \in {"*", "-"})

\* C23: blank lines, HTML-comment lines, note lines beginning with -> or ~>
\* and plain lines cause no insertion and no state change in ParseFields of
\* the Arguments and of the Attributes section; a block that is open stays
\* open.
C23_SkippedLinesChangeNothing ==
    [][(/\ mode = "loop" /\ hist.i >= 1 /\ hist'.i = hist.i + 1
        /\ SkippableOrPlain(sec.content[hist.i])) =>
          /\ heap' = heap
          /\ hist'.cur = hist.cur /\ hist'.inBlock = hist.inBlock]_vars

----------------------------------------------------------------------------
(* SpecLink: BuildBlockStructure and checkMissingInSchema on trees with a  *)
(* root-level field `source` and the block definitions `endpoint`/`target` *)

\* the root-level field `source`: a block reference when block is TRUE
LinkReference(block, btn) ==
    [ZeroProperty EXCEPT !.Name = "source", !.Optional = TRUE, !.Block = block,
                         !.BlockTypeName = btn, !.Content = LineSource, !.Line = 1,
                         !.Position = "PosArgs"]

\* a committed block definition: Block with a non-empty Nested
LinkDefinition(name, btn, field) ==
    Entry([ZeroProperty EXCEPT !.Name = name, !.Block = TRUE, !.BlockTypeName = btn,
                               !.Content = LineHead, !.Line = 3, !.Position = "PosArgs"],
          Kids(<<[ZeroProperty EXCEPT !.Name = field, !.Optional = TRUE, !.Line = 4,
                                      !.Content = LineName, !.Position = "PosArgs"]>>))

LinkTypeNames == {"", "source", "endpoint", "target"}

\* the documented trees: the field, then none, one or both definitions
LinkDocs ==
    {<<Entry(LinkReference(b, t), k)>> \o d1 \o d2 :
        b \in BOOLEAN, t \in LinkTypeNames, k \in {NoKids, Kids(<<>>)},
        d1 \in {<<>>} \cup {<<LinkDefinition("endpoint", t1, "x")>> : t1 \in LinkTypeNames},
        d2 \in {<<>>} \cup {<<LinkDefinition("target", t2, "y")>> : t2 \in LinkTypeNames}}

\* the schema trees: with and without a property `source`
LinkSchemas ==
    {<<>>, <<Entry([ZeroProperty EXCEPT !.Name = "source", !.Optional = TRUE, !.Block = TRUE],
                   NoKids)>>}

\* the two orders in which the root map of definitions can be ranged over
LinkOrders == {<<"source", "endpoint", "target", "x", "y">>,
               <<"y", "x", "target", "endpoint", "source">>}

InitLink ==
    /\ mode = "link"
    /\ \E s \in LinkSchemas, d \in LinkDocs :
        /\ heap = BuildTree(BuildTree(EmptyHeap, s), d)
        /\ node = [SchemaProperties |-> 1,
                   DocumentArguments |-> Len(BuildTree(EmptyHeap, s).props) + 1]
    /\ hist = [linked |-> FALSE, checked |-> FALSE, ok |-> TRUE]
    /\ sec = [kind |-> "args", content |-> <<>>, parsedFields |-> 0]
    /\ out = [errs |-> <<>>]

\* d.DocumentArguments.BuildBlockStructure()
LinkBlocks ==
    /\ mode = "link"
    /\ ~hist.linked
    /\ \E ord \in LinkOrders :
        \E r \in {BuildBlockStructure(heap, node.DocumentArguments, ord)} :
            /\ heap' = r.h
            /\ hist' = [linked |-> TRUE, checked |-> FALSE, ok |-> r.ok]
    /\ UNCHANGED <<mode, sec, node, out>>

\* the doc-to-schema direction of the rule on the documented tree
CheckSchema ==
    /\ mode = "link"
    /\ \E ord \in LinkOrders :
        out' = [errs |-> checkMissingInSchema(heap, <<>>, node.DocumentArguments,
                                              node.SchemaProperties, ord)]
    /\ hist' = [hist EXCEPT !.checked = TRUE]
    /\ UNCHANGED <<heap, mode, sec, node>>

NextLink == LinkBlocks \/ CheckSchema

SpecLink == InitLink /\ [][NextLink]_vars

\* the Property objects of the root of the documented tree
LinkRoot == {heap.props[node.DocumentArguments].Objects[n] :
                n \in DOMAIN heap.props[node.DocumentArguments].Objects}

\* the root-level references: Block with a nil or empty Nested
References == {p \in LinkRoot : heap.prop[p].Block /\ ~HasNested(heap, p)}

\* the definitions the first loop stores under the key: those of that name
\* and those of that BlockTypeName
StoredUnder(key) ==
    {d \in LinkRoot : /\ heap.prop[d].Block /\ HasNested(heap, d)
                      /\ key # ""
                      /\ key \in {heap.prop[d].Name, heap.prop[d].BlockTypeName}}

\* the reference p got the Nested of a definition stored under the key, and
\* kept its own Nested when there is none
ResolvedUnder(p, key) ==
    IF StoredUnder(key) = {} THEN heap'.prop[p].Nested = heap.prop[p].Nested
    ELSE \E d \in StoredUnder(key) : heap'.prop[p].Nested = heap.prop[d].Nested

LinkStep == mode = "link" /\ ~hist.linked /\ hist'.linked

C25_StaleReferenceIsReported ==
    (/\ mode = "link" /\ hist.checked
     /\ heap.prop[heap.props[node.DocumentArguments].Objects["source"]].Block
     /\ "source" \notin DOMAIN heap.props[node.SchemaProperties].Objects)
        => \E k \in 1..Len(out.errs) : out.errs[k].path = <<"source">>

----------------------------------------------------------------------------
(* Claims about block detection on field lines                             *)

\* the positions of the quoted tokens that blockPropRegs matches as the
\* block's name: quantifier, token, "block" or "object", then below / above
\* before a period
PatternTokens(line) ==
    {i + 1 : i \in {i \in 1..(Len(line) - 2) :
        /\ line[i].k = "w" /\ line[i].s \in QuantifierEnd
        /\ line[i + 1].k = "c"
        /\ line[i + 2].k = "w" /\ line[i + 2].s \in BlockOrObjectStart
        /\ line[i + 2].s \notin HasPeriod
        /\ \E j \in (i + 3)..Len(line) :
            /\ line[j].s \in HasBelowAbove
            /\ \A m \in (i + 3)..(j - 1) : line[m].s \notin HasPeriod}}

\* the line holds the phrase "A block to"
HasBlockTo(line) ==
    \E i \in 1..(Len(line) - 2) :
        line[i] = W("A") /\ line[i + 1] = W("block") /\ line[i + 2] = W("to")

\* C26: for a field line detected as a block, BlockTypeName is the field's
\* own name unless the description names a distinct quoted token in the
\* block pattern, and then it is that token; for a line not detected as a
\* block, Block is false.
C26_BlockTypeNameIsPatternToken ==
    Returned /\ out.field.Name # "" =>
        IF PatternTokens(hist.line) # {} \/ HasBlockTo(hist.line)
        THEN /\ out.field.Block
             /\ out.field.BlockTypeName =
                   IF \E i \in PatternTokens(hist.line) : hist.line[i].s # out.field.Name
                   THEN hist.line[Min({i \in PatternTokens(hist.line) :
                                          hist.line[i].s # out.field.Name})].s
                   ELSE out.field.Name
        ELSE ~out.field.Block

----------------------------------------------------------------------------
(* SpecHead: ProcessBlockDefinition on block-head lines and other lines    *)

HeadOpenings == {<<W("An")>>, <<W("The")>>, <<W("A"), W("list"), W("of")>>, <<W("One")>>}

HeadNames == {<<C("rule")>>, <<C("identity"), W("and"), C("principal")>>,
              <<C("a"), W(","), C("b"), W("and"), C("c")>>, <<C("block_device")>>,
              <<C("rule"), W("and"), C("block_device")>>, <<>>}

HeadRelations == {<<>>,
                  <<W("of"), C("policy")>>,
                  <<W("within"), C("policy")>>,
                  <<W("within"), C("policy"), W("of"), C("server")>>,
                  <<W("of"), C("server"), W("within"), C("policy")>>,
                  <<W("of"), W("the"), W("server")>>,
                  <<W("as"), W("defined"), C("below")>>}

HeadEndings == {<<W("supports"), W("the"), W("following:")>>, <<W(":")>>}

\* the lines given to ProcessBlockDefinition
HeadPool ==
    {o \o n \o <<W(b)>> \o r \o e :
        o \in HeadOpenings, n \in HeadNames, b \in {"block", "blocks"},
        r \in HeadRelations, e \in HeadEndings}
    \cup {LineName, LineText, LineSource}

InitHead ==
    /\ mode = "head"
    /\ heap = EmptyHeap
    /\ \E l \in HeadPool : \E pos \in {"PosArgs", "PosAttr"} :
          hist = [line |-> l, position |-> pos]
    /\ sec = [content |-> <<>>, parsedFields |-> 0]
    /\ node = [SchemaProperties |-> 0, DocumentArguments |-> 0]
    /\ out = [done |-> FALSE, blockNames |-> <<>>, blockOf |-> ""]

\* blockNames, blockOf := ProcessBlockDefinition(line, position, lineNumber)
ProcessHead ==
    /\ mode = "head"
    /\ ~out.done
    /\ \E r \in {ProcessBlockDefinition(hist.line)} :
          out' = [done |-> TRUE, blockNames |-> r.blockNames, blockOf |-> r.blockOf]
    /\ UNCHANGED <<heap, mode, hist, sec, node>>

NextHead == ProcessHead

SpecHead == InitHead /\ [][NextHead]_vars

\* the positions of the substrings " of " and " within " of a line
RelationWords(line) == {i \in 2..(Len(line) - 1) : line[i] \in {W("of"), W("within")}}

\* the first quoted token from piece i on, "" when there is none
TokenAfter(line, i) ==
    IF \E j \in CodePositions(line) : j > i
    THEN line[Min({j \in CodePositions(line) : j > i})].s ELSE ""

\* C27: the relationship target is the first quoted token after whichever of
\* " of " and " within " occurs earlier in the line, and is empty when the
\* line holds neither.
C27_TargetFollowsEarlierRelation ==
    mode = "head" /\ out.done =>
        out.blockOf = IF RelationWords(hist.line) = {} THEN ""
                      ELSE TokenAfter(hist.line, Min(RelationWords(hist.line)))

\* the positions of the word "block" in a line
BlockWords(line) ==
    {i \in 1..Len(line) : line[i].k = "w" /\ line[i].s \in {"block", "blocks", "block."}}

\* C28: for a block-head line the names are exactly the quoted tokens before
\* the first word "block", in line order, every name of a multi-name head
\* among them; a line that is not a block head has no names.
C28_NamesAreTokensBeforeBlock ==
    mode = "head" /\ out.done =>
        out.blockNames =
            IF IsBlockHead(hist.line) /\ BlockWords(hist.line) # {}
            THEN [k \in 1..Len(Codes(SubSeq(hist.line, 1, Min(BlockWords(hist.line)) - 1))) |->
                     Codes(SubSeq(hist.line, 1, Min(BlockWords(hist.line)) - 1))[k].s]
            ELSE <<>>

----------------------------------------------------------------------------
(* Claims about guessed values and the "must be one of" phrase             *)

\* the structured parser has returned a field for the line
Parsed == mode = "extract" /\ out.parsed.done /\ ~out.parsed.panic /\ ~out.parsed.field.isNil

\* C29: guessed values are kept apart from the authoritative ones: the quoted
\* tokens of a description without a trigger phrase are never stored in
\* PossibleValues, by neither parser, and the guessed-values list is non-empty
\* only when PossibleValues is empty.
C29_GuessedValuesKeptApart ==
    /\ Returned => (out.field.GuessEnums # <<>> => out.field.PossibleValues = <<>>)
    /\ (Returned /\ TriggerPieces(hist.line) = {}) => out.field.PossibleValues = <<>>
    /\ (Parsed /\ TriggerPieces(hist.line) = {}) => out.parsed.field.PossibleValues = <<>>

\* the line's only trigger phrase is "must be one of"
OnlyMustBeOneOf(line) ==
    /\ Cardinality(TriggerPhrases(line)) = 1
    /\ \A t \in TriggerPhrases(line) : SeparatorAt(line, t, EnumSeparators[2])

\* C30: a field line whose only enum clause is introduced by "must be one of"
\* gets the values of that clause as its possible values and no "multiple
\* possible value sections" parse error.
C30_MustBeOneOfIsOneClause ==
    (Returned /\ PrimaryMatches(hist.line) /\ OnlyMustBeOneOf(hist.line)) =>
        /\ \A t \in TriggerPhrases(hist.line) :
              out.field.PossibleValues = FirstOccurrences(TokensOfSection(hist.line, t), {})
        /\ AmbiguityError \notin Range(out.field.ParseErrors)

====
